---------------------------- MODULE Spec2Model ----------------------------
(***************************************************************************)
(* A model of nestjs-paginate-client: the filter-token codec, the query    *)
(* parameter builder, its serialisation to a query string and the parser   *)
(* that reads such a string back.                                          *)
(*                                                                         *)
(* Representation.                                                         *)
(*  - A JavaScript string is a sequence of one-character strings, so that  *)
(*    joining, splitting, percent-encoding and integer parsing are what    *)
(*    they are in the code and not the identity.                           *)
(*  - `undefined` is the empty sequence <<>> and a defined value v is the  *)
(*    one-element sequence <<v>>.                                          *)
(*  - Arrays and the filter object are heap cells addressed by reference,  *)
(*    because the builder mutates some of them in place (push, property    *)
(*    assignment) and copies others; sharing a cell is observable.         *)
(***************************************************************************)
EXTENDS Integers, Sequences, FiniteSets, TLC

(***************************************************************************)
(* Strings                                                                 *)
(***************************************************************************)
Digits == <<"0", "1", "2", "3", "4", "5", "6", "7", "8", "9">>

IsDigit(ch) == \E i \in 1..10 : Digits[i] = ch

DigitVal(ch) == (CHOOSE i \in 1..10 : Digits[i] = ch) - 1

RECURSIVE NatToStr(_)
NatToStr(n) == IF n < 10 THEN <<Digits[n + 1]>>
               ELSE NatToStr(n \div 10) \o <<Digits[(n % 10) + 1]>>

\* String(n) for an integer n.
NumberToString(n) == IF n < 0 THEN <<"-">> \o NatToStr(0 - n) ELSE NatToStr(n)

RECURSIVE DigitsValue(_, _)
DigitsValue(s, acc) ==
    IF s = <<>> \/ ~IsDigit(Head(s)) THEN acc
    ELSE DigitsValue(Tail(s), acc * 10 + DigitVal(Head(s)))

RECURSIVE SkipSpaces(_)
SkipSpaces(s) == IF s # <<>> /\ Head(s) = " " THEN SkipSpaces(Tail(s)) ELSE s

\* parseInt(s, 10): leading white space skipped, an optional sign, then the
\* longest prefix of digits; NaN (here <<>>) when there is no digit.
parseInt(s) ==
    LET t    == SkipSpaces(s)
        neg  == t # <<>> /\ Head(t) = "-"
        sgn  == t # <<>> /\ Head(t) \in {"-", "+"}
        body == IF sgn THEN Tail(t) ELSE t
    IN  IF body = <<>> \/ ~IsDigit(Head(body)) THEN <<>>
        ELSE <<IF neg THEN 0 - DigitsValue(body, 0) ELSE DigitsValue(body, 0)>>

RECURSIVE Join(_, _)
\* Array.prototype.join on an array of strings.
Join(arr, sep) ==
    IF arr = <<>> THEN <<>>
    ELSE IF Len(arr) = 1 THEN arr[1]
    ELSE arr[1] \o sep \o Join(Tail(arr), sep)

\* indexOf / lastIndexOf of a character, 1-based, 0 when absent (the code's
\* -1).
IndexOf(s, ch) ==
    IF \E i \in 1..Len(s) : s[i] = ch
    THEN CHOOSE i \in 1..Len(s) : s[i] = ch /\ \A j \in 1..(i - 1) : s[j] # ch
    ELSE 0

\* The mutated lastIndexOf of claim C22: the first occurrence.
LastIndexOf_first(s, ch) == IndexOf(s, ch)

LastIndexOf(s, ch) ==
    IF \E i \in 1..Len(s) : s[i] = ch
    THEN CHOOSE i \in 1..Len(s) : s[i] = ch /\ \A j \in (i + 1)..Len(s) : s[j] # ch
    ELSE 0

RECURSIVE Split(_, _)
\* String.prototype.split on a one-character separator: never empty,
\* ''.split(c) is [''].
Split(s, ch) ==
    LET i == IndexOf(s, ch)
    IN  IF i = 0 THEN <<s>>
        ELSE <<SubSeq(s, 1, i - 1)>> \o Split(SubSeq(s, i + 1, Len(s)), ch)

StartsWith(s, p) == Len(s) >= Len(p) /\ SubSeq(s, 1, Len(p)) = p

(***************************************************************************)
(* encodeURIComponent / decodeURIComponent.  Letters, digits and           *)
(* - _ . ! ~ * ' ( ) are kept; every other character of the modelled       *)
(* alphabet is in PctCode.                                                 *)
(***************************************************************************)
PctChars == {"$", ":", ",", "&", "=", "?", "%", " ", "+"}

PctCode(ch) ==
    CASE ch = "$" -> <<"%", "2", "4">>
      [] ch = ":" -> <<"%", "3", "A">>
      [] ch = "," -> <<"%", "2", "C">>
      [] ch = "&" -> <<"%", "2", "6">>
      [] ch = "=" -> <<"%", "3", "D">>
      [] ch = "?" -> <<"%", "3", "F">>
      [] ch = "%" -> <<"%", "2", "5">>
      [] ch = " " -> <<"%", "2", "0">>
      [] ch = "+" -> <<"%", "2", "B">>

RECURSIVE encodeURIComponent(_)
encodeURIComponent(s) ==
    IF s = <<>> THEN <<>>
    ELSE (IF Head(s) \in PctChars THEN PctCode(Head(s)) ELSE <<Head(s)>>)
         \o encodeURIComponent(Tail(s))

RECURSIVE decodeURIComponent(_)
\* [ok, str]: ok is FALSE when the code throws URIError (a '%' that is not
\* followed by an escape).  Escapes other than those of PctChars do not
\* occur in the modelled inputs.
decodeURIComponent(s) ==
    IF s = <<>> THEN [ok |-> TRUE, str |-> <<>>]
    ELSE IF Head(s) # "%"
         THEN LET r == decodeURIComponent(Tail(s))
              IN  [ok |-> r.ok, str |-> <<Head(s)>> \o r.str]
    ELSE IF Len(s) >= 3 /\ \E ch \in PctChars : PctCode(ch) = SubSeq(s, 1, 3)
         THEN LET ch == CHOOSE x \in PctChars : PctCode(x) = SubSeq(s, 1, 3)
                  r  == decodeURIComponent(SubSeq(s, 4, Len(s)))
              IN  [ok |-> r.ok, str |-> <<ch>> \o r.str]
    ELSE [ok |-> FALSE, str |-> <<>>]

(***************************************************************************)
(* JavaScript values handed to the filter helpers: undefined, a string, a  *)
(* number, or an array of strings and numbers.                             *)
(***************************************************************************)
Undef  == [kind |-> "undefined", s |-> <<>>, n |-> 0, arr |-> <<>>]
Str(x) == [kind |-> "string", s |-> x, n |-> 0, arr |-> <<>>]
Num(x) == [kind |-> "number", s |-> <<>>, n |-> x, arr |-> <<>>]
Arr(x) == [kind |-> "array", s |-> <<>>, n |-> 0, arr |-> x]

\* String(v) of a string or a number.
StringOf(v) == IF v.kind = "number" THEN NumberToString(v.n) ELSE v.s

\* values.map(String)
MapString(arr) == [i \in 1..Len(arr) |-> StringOf(arr[i])]

(***************************************************************************)
(* Filter token codec                                                      *)
(***************************************************************************)
SEP == <<":">>

OpEQ       == <<"$", "e", "q">>
OpGT       == <<"$", "g", "t">>
OpGTE      == <<"$", "g", "t", "e">>
OpIN       == <<"$", "i", "n">>
OpNULL     == <<"$", "n", "u", "l", "l">>
OpLT       == <<"$", "l", "t">>
OpLTE      == <<"$", "l", "t", "e">>
OpBTW      == <<"$", "b", "t", "w">>
OpILIKE    == <<"$", "i", "l", "i", "k", "e">>
OpSW       == <<"$", "s", "w">>
OpCONTAINS == <<"$", "c", "o", "n", "t", "a", "i", "n", "s">>

FilterOperator == {OpEQ, OpGT, OpGTE, OpIN, OpNULL, OpLT, OpLTE, OpBTW,
                   OpILIKE, OpSW, OpCONTAINS}

SuffixNOT == <<"$", "n", "o", "t">>
FilterSuffix == {SuffixNOT}

ComparatorAND == <<"$", "a", "n", "d">>
ComparatorOR  == <<"$", "o", "r">>
FilterComparator == {ComparatorAND, ComparatorOR}

\* FilterTokenOptions: comparator and suffix are optional, value is a JS
\* value (Undef when omitted).
Options(comparator, suffix, operator, value) ==
    [comparator |-> comparator, suffix |-> suffix, operator |-> operator,
     value |-> value]

\* The parts pushed before the value: the comparator unless absent or
\* $and, the suffix if any, the operator.
TokenParts(options) ==
    (IF options.comparator # <<>> /\ options.comparator[1] # ComparatorAND
     THEN <<options.comparator[1]>> ELSE <<>>)
    \o (IF options.suffix # <<>> THEN <<options.suffix[1]>> ELSE <<>>)
    \o <<options.operator>>

\* The mutated codec of claim C7: every comparator that is given is pushed.
buildFilterToken_emitAnd(options) ==
    LET parts == options.comparator \o options.suffix \o <<options.operator>>
    IN  IF options.operator = OpNULL THEN Join(parts, SEP)
        ELSE IF options.value.kind = "array"
             THEN Join(Append(parts, Join(MapString(options.value.arr), <<",">>)), SEP)
        ELSE IF options.value.kind # "undefined"
             THEN Join(Append(parts, StringOf(options.value)), SEP)
        ELSE Join(parts, SEP)

\* The mutated codec of claim C6: no early return for $null.
buildFilterToken_nullValue(options) ==
    LET parts == TokenParts(options)
    IN  IF options.value.kind = "array"
        THEN Join(Append(parts, Join(MapString(options.value.arr), <<",">>)), SEP)
        ELSE IF options.value.kind # "undefined"
             THEN Join(Append(parts, StringOf(options.value)), SEP)
        ELSE Join(parts, SEP)

\* buildFilterToken never throws: without a value it returns the parts
\* joined so far.
buildFilterToken(options) ==
    LET parts == TokenParts(options)
    IN  IF options.operator = OpNULL THEN Join(parts, SEP)
        ELSE IF options.value.kind = "array"
             THEN Join(Append(parts, Join(MapString(options.value.arr), <<",">>)), SEP)
        ELSE IF options.value.kind # "undefined"
             THEN Join(Append(parts, StringOf(options.value)), SEP)
        ELSE Join(parts, SEP)

eq(value)    == buildFilterToken(Options(<<>>, <<>>, OpEQ, value))
gt(value)    == buildFilterToken(Options(<<>>, <<>>, OpGT, value))
gte(value)   == buildFilterToken(Options(<<>>, <<>>, OpGTE, value))
lt(value)    == buildFilterToken(Options(<<>>, <<>>, OpLT, value))
lte(value)   == buildFilterToken(Options(<<>>, <<>>, OpLTE, value))
ilike(value) == buildFilterToken(Options(<<>>, <<>>, OpILIKE, value))
sw(value)    == buildFilterToken(Options(<<>>, <<>>, OpSW, value))
nullOp       == buildFilterToken(Options(<<>>, <<>>, OpNULL, Undef))
btw(min, max) == buildFilterToken(Options(<<>>, <<>>, OpBTW, Arr(<<min, max>>)))

\* inOp(values) and contains(values) take ONE array: they call
\* values.map(String).join(',') on their first argument.
inOp(values) ==
    buildFilterToken(Options(<<>>, <<>>, OpIN, Str(Join(MapString(values.arr), <<",">>))))

contains(values) ==
    buildFilterToken(Options(<<>>, <<>>, OpCONTAINS,
                             Str(Join(MapString(values.arr), <<",">>))))

\* The mutated helper of claim C8: the prefix goes after the token.
not_suffixed(token) == token \o SEP \o SuffixNOT

not(token) == SuffixNOT \o SEP \o token

or(token) == ComparatorOR \o SEP \o token

\* and() is exported by the library's tests and README but its definition
\* is not in the snapshot; it is modelled from the specification.
and(token) == ComparatorAND \o SEP \o token

(***************************************************************************)
(* The builder.  A builder is a record of its private fields; _sortBy,     *)
(* _searchBy, _select and _filter hold references into the heap h, a       *)
(* sequence of cells.  The cell of an array is the sequence of its         *)
(* elements; the cell of the filter object is the sequence of its own      *)
(* properties [key, val] in insertion order, where val is a token string   *)
(* (isArray = FALSE, str) or a reference to an array of tokens (isArray =  *)
(* TRUE, ref).  Every operation returns [h, this]: the heap and the        *)
(* builder after the call.                                                 *)
(***************************************************************************)
StrVal(x) == [isArray |-> FALSE, str |-> x, ref |-> 0]
RefVal(a) == [isArray |-> TRUE, str |-> <<>>, ref |-> a]

\* new PaginateQueryBuilder(): the field initialisers allocate three empty
\* arrays and an empty object.
NewBuilder(h) ==
    [h    |-> h \o << <<>>, <<>>, <<>>, <<>> >>,
     this |-> [page |-> <<>>, limit |-> <<>>, sortBy |-> Len(h) + 1,
               search |-> <<>>, searchBy |-> Len(h) + 2, select |-> Len(h) + 3,
               filter |-> Len(h) + 4, cursor |-> <<>>, withDeleted |-> <<>>]]

page(h, this, n) == [h |-> h, this |-> [this EXCEPT !.page = <<n>>]]

limit(h, this, n) == [h |-> h, this |-> [this EXCEPT !.limit = <<n>>]]

\* The mutated sortBy of claim C10: a rule already present is not added.
sortBy_dedup(h, this, column, direction) ==
    IF \E i \in 1..Len(h[this.sortBy]) : h[this.sortBy][i] = <<column, direction>>
    THEN [h |-> h, this |-> this]
    ELSE [h |-> [h EXCEPT ![this.sortBy] = Append(@, <<column, direction>>)],
          this |-> this]

\* this._sortBy.push([column, direction]): in place.
sortBy(h, this, column, direction) ==
    [h |-> [h EXCEPT ![this.sortBy] = Append(@, <<column, direction>>)],
     this |-> this]

search(h, this, term) == [h |-> h, this |-> [this EXCEPT !.search = <<term>>]]

\* The mutated searchBy of claim C25: the first column only.
searchBy_first(h, this, columns) ==
    [h    |-> Append(h, SubSeq(h[columns], 1, 1)),
     this |-> [this EXCEPT !.searchBy = Len(h) + 1]]

\* columns.slice(): a new array with the elements of the array at columns.
searchBy(h, this, columns) ==
    [h |-> Append(h, h[columns]), this |-> [this EXCEPT !.searchBy = Len(h) + 1]]

select(h, this, columns) ==
    [h |-> Append(h, h[columns]), this |-> [this EXCEPT !.select = Len(h) + 1]]

\* obj[key], <<>> when obj has no such property.
GetProp(obj, key) ==
    IF \E i \in 1..Len(obj) : obj[i].key = key
    THEN <<(CHOOSE e \in {obj[i] : i \in 1..Len(obj)} : e.key = key).val>>
    ELSE <<>>

\* obj[key] = val: an existing property keeps its place, a new one is added
\* last.
SetProp(obj, key, val) ==
    IF \E i \in 1..Len(obj) : obj[i].key = key
    THEN [i \in 1..Len(obj) |-> IF obj[i].key = key THEN [key |-> key, val |-> val]
                                ELSE obj[i]]
    ELSE Append(obj, [key |-> key, val |-> val])

\* JavaScript truthiness of this._filter[key]: undefined and '' are falsy,
\* a non-empty string and every array (an empty one too) are truthy.
Truthy(existing) ==
    existing # <<>> /\ (existing[1].isArray \/ existing[1].str # <<>>)

\* filter(column, token): token is a string (StrVal) or a reference to the
\* caller's array (RefVal).  `next` is the caller's array itself when token
\* is an array, and a temporary one-element array otherwise.
filter(h, this, column, token) ==
    LET existing == GetProp(h[this.filter], column)
        next     == IF token.isArray THEN h[token.ref] ELSE <<token.str>>
    IN  IF Truthy(existing)
        THEN LET old == IF existing[1].isArray THEN h[existing[1].ref]
                        ELSE <<existing[1].str>>
                 h1  == Append(h, old \o next)
             IN  [h    |-> [h1 EXCEPT ![this.filter] =
                                SetProp(@, column, RefVal(Len(h) + 1))],
                  this |-> this]
        ELSE IF Len(next) = 1
        THEN [h    |-> [h EXCEPT ![this.filter] = SetProp(@, column, StrVal(next[1]))],
              this |-> this]
        ELSE [h    |-> [h EXCEPT ![this.filter] = SetProp(@, column, RefVal(token.ref))],
              this |-> this]

\* The mutated cursor of claim C24: a cursor already set is kept.
cursor_keepFirst(h, this, c) ==
    [h |-> h, this |-> IF this.cursor = <<>> THEN [this EXCEPT !.cursor = <<c>>] ELSE this]

cursor(h, this, c) == [h |-> h, this |-> [this EXCEPT !.cursor = <<c>>]]

withDeleted(h, this, value) ==
    [h |-> h, this |-> [this EXCEPT !.withDeleted = <<value>>]]

\* A property key that is an array index ("0", "7", "12") is enumerated
\* before the other keys, in ascending numeric order.
IsArrayIndex(key) ==
    /\ key # <<>>
    /\ \A i \in 1..Len(key) : IsDigit(key[i])
    /\ (key[1] # "0" \/ Len(key) = 1)

RECURSIVE SortByIndex(_)
SortByIndex(obj) ==
    IF obj = <<>> THEN <<>>
    ELSE LET m == CHOOSE i \in 1..Len(obj) :
                      \A j \in 1..Len(obj) :
                          DigitsValue(obj[i].key, 0) <= DigitsValue(obj[j].key, 0)
         IN  <<obj[m]>> \o SortByIndex(SubSeq(obj, 1, m - 1) \o SubSeq(obj, m + 1, Len(obj)))

\* Object.entries(obj): index keys ascending, then the string keys in
\* insertion order.
ObjectEntries(obj) ==
    SortByIndex(SelectSeq(obj, LAMBDA e : IsArrayIndex(e.key)))
    \o SelectSeq(obj, LAMBDA e : ~IsArrayIndex(e.key))

\* The array-valued properties of a filter object, in property order.
ArrayProps(obj) == SelectSeq(obj, LAMBDA e : e.val.isArray)

\* The mutated clone of claim C3: the sort-rule array and the filter object
\* are assigned, not copied.
clone_shallow(h, this) ==
    LET n == Len(h)
    IN  [h    |-> h \o <<h[this.searchBy], h[this.select]>>,
         this |-> [this EXCEPT !.searchBy = n + 1, !.select = n + 2]]

\* clone(): new arrays for _sortBy, _searchBy and _select, a new object for
\* _filter whose array values are new arrays.
clone(h, this) ==
    LET n    == Len(h)
        obj  == ObjectEntries(h[this.filter])
        arrs == ArrayProps(obj)
        \* the position of property i among the array-valued ones
        rank(i) == Cardinality({j \in 1..i : obj[j].val.isArray})
        copy == [i \in 1..Len(obj) |->
                    IF obj[i].val.isArray
                    THEN [key |-> obj[i].key, val |-> RefVal(n + 4 + rank(i))]
                    ELSE obj[i]]
    IN  [h    |-> h \o <<h[this.sortBy], h[this.searchBy], h[this.select], copy>>
                    \o [i \in 1..Len(arrs) |-> h[arrs[i].val.ref]],
         this |-> [this EXCEPT !.sortBy = n + 1, !.searchBy = n + 2,
                               !.select = n + 3, !.filter = n + 4]]

(***************************************************************************)
(* Serialisation.  A params object (PaginateParamsRaw) is the sequence of  *)
(* its properties [key, val] in insertion order; val is a string (isArray  *)
(* = FALSE, str) or a list of strings (isArray = TRUE, arr); a caller of   *)
(* toQueryString may also hand in undefined or null (nullish = TRUE).      *)
(***************************************************************************)
PStr(x) == [nullish |-> FALSE, isArray |-> FALSE, str |-> x, arr |-> <<>>]
PArr(a) == [nullish |-> FALSE, isArray |-> TRUE, str |-> <<>>, arr |-> a]
PNull   == [nullish |-> TRUE, isArray |-> FALSE, str |-> <<>>, arr |-> <<>>]

KeyPage        == <<"p", "a", "g", "e">>
KeyLimit       == <<"l", "i", "m", "i", "t">>
KeySortBy      == <<"s", "o", "r", "t", "B", "y">>
KeySearch      == <<"s", "e", "a", "r", "c", "h">>
KeySearchBy    == <<"s", "e", "a", "r", "c", "h", "B", "y">>
KeySelect      == <<"s", "e", "l", "e", "c", "t">>
KeyCursor      == <<"c", "u", "r", "s", "o", "r">>
KeyWithDeleted == <<"w", "i", "t", "h", "D", "e", "l", "e", "t", "e", "d">>
FilterPrefix   == <<"f", "i", "l", "t", "e", "r", ".">>

StrTrue  == <<"t", "r", "u", "e">>
StrFalse == <<"f", "a", "l", "s", "e">>

Prop(key, val) == <<[key |-> key, val |-> val]>>

\* The properties toParams sets before the withDeleted line.
ParamsHead(h, this) ==
    (IF this.page # <<>> THEN Prop(KeyPage, PStr(NumberToString(this.page[1])))
     ELSE <<>>)
    \o (IF this.limit # <<>> THEN Prop(KeyLimit, PStr(NumberToString(this.limit[1])))
        ELSE <<>>)
    \o (IF Len(h[this.sortBy]) > 0
        THEN Prop(KeySortBy, PArr([i \in 1..Len(h[this.sortBy]) |->
                 h[this.sortBy][i][1] \o <<":">> \o h[this.sortBy][i][2]]))
        ELSE <<>>)
    \o (IF this.search # <<>> /\ this.search[1] # <<>>
        THEN Prop(KeySearch, PStr(this.search[1])) ELSE <<>>)
    \o (IF Len(h[this.searchBy]) > 0 THEN Prop(KeySearchBy, PArr(h[this.searchBy]))
        ELSE <<>>)
    \o (IF Len(h[this.select]) > 0
        THEN Prop(KeySelect, PStr(Join(h[this.select], <<",">>))) ELSE <<>>)
    \o (IF this.cursor # <<>> THEN Prop(KeyCursor, PStr(this.cursor[1])) ELSE <<>>)

\* The filter properties toParams sets last, one per entry of the filter
\* object.
ParamsFilters(h, this) ==
    LET entries == ObjectEntries(h[this.filter])
    IN  [i \in 1..Len(entries) |->
            [key |-> FilterPrefix \o entries[i].key,
             val |-> IF entries[i].val.isArray THEN PArr(h[entries[i].val.ref])
                     ELSE PStr(entries[i].val.str)]]

\* The mutated toParams of claim C4: the flag is serialised whenever it is
\* set, as String(value).
toParams_anyFlag(h, this) ==
    ParamsHead(h, this)
    \o (IF this.withDeleted # <<>>
        THEN Prop(KeyWithDeleted, PStr(IF this.withDeleted[1] THEN StrTrue ELSE StrFalse))
        ELSE <<>>)
    \o ParamsFilters(h, this)

\* toParams(), with the array values read out of the heap.
toParams(h, this) ==
    ParamsHead(h, this)
    \o (IF this.withDeleted = <<TRUE>> THEN Prop(KeyWithDeleted, PStr(StrTrue))
        ELSE <<>>)
    \o ParamsFilters(h, this)

\* The mutated pair of claim C26: key and value as they are.
Pair_raw(key, v) == key \o <<"=">> \o v

\* `${encodeURIComponent(key)}=${encodeURIComponent(String(v))}`
Pair(key, v) == encodeURIComponent(key) \o <<"=">> \o encodeURIComponent(v)

RECURSIVE Pairs(_)
\* The pairs toQueryString pushes for a list of entries: none for undefined
\* or null, one per non-empty string, one per non-empty element of a list.
Pairs(entries) ==
    IF entries = <<>> THEN <<>>
    ELSE LET e == Head(entries)
             nonEmpty == SelectSeq(e.val.arr, LAMBDA v : v # <<>>)
         IN  (IF e.val.nullish THEN <<>>
              ELSE IF e.val.isArray
              THEN [i \in 1..Len(nonEmpty) |-> Pair(e.key, nonEmpty[i])]
              ELSE IF e.val.str # <<>> THEN <<Pair(e.key, e.val.str)>>
              ELSE <<>>)
             \o Pairs(Tail(entries))

\* The mutated toQueryString of claim C11: the '?' is always there.
toQueryString_alwaysPrefix(params) ==
    <<"?">> \o Join(Pairs(ObjectEntries(params)), <<"&">>)

RECURSIVE CombinedPairs(_)
CombinedPairs(entries) ==
    IF entries = <<>> THEN <<>>
    ELSE LET e == Head(entries)
             nonEmpty == SelectSeq(e.val.arr, LAMBDA v : v # <<>>)
         IN  (IF e.val.nullish THEN <<>>
              ELSE IF e.val.isArray
              THEN IF nonEmpty # <<>> THEN <<Pair(e.key, Join(nonEmpty, <<",">>))>>
                   ELSE <<>>
              ELSE IF e.val.str # <<>> THEN <<Pair(e.key, e.val.str)>>
              ELSE <<>>)
             \o CombinedPairs(Tail(entries))

\* The mutated toQueryString of claim C20: the values of a list go into one
\* pair, joined by ','.
toQueryString_combined(params) ==
    LET pairs == CombinedPairs(ObjectEntries(params))
    IN  IF Len(pairs) > 0 THEN <<"?">> \o Join(pairs, <<"&">>) ELSE <<>>

\* toQueryString(params): the pairs of Object.entries(params), joined.
toQueryString(params) ==
    LET pairs == Pairs(ObjectEntries(params))
    IN  IF Len(pairs) > 0 THEN <<"?">> \o Join(pairs, <<"&">>) ELSE <<>>

RECURSIVE AppendEach(_, _)
\* usp.append(key, v) for one entry of toParams(): once per element of a
\* list, once for a string; nothing is skipped.
AppendEach(usp, entries) ==
    IF entries = <<>> THEN usp
    ELSE LET e == Head(entries)
         IN  AppendEach(usp \o (IF e.val.isArray
                                THEN [i \in 1..Len(e.val.arr) |-> <<e.key, e.val.arr[i]>>]
                                ELSE << <<e.key, e.val.str>> >>),
                        Tail(entries))

\* toURLSearchParams(): the entries of the URLSearchParams, a list of
\* <<key, value>>.
toURLSearchParams(h, this) == AppendEach(<<>>, ObjectEntries(toParams(h, this)))

(***************************************************************************)
(* The serialising methods as calls on a builder: [h, this, ret], the heap *)
(* and the builder after the call and the value returned.  toParams reads  *)
(* the fields (map and join build new values) and assigns none.            *)
(***************************************************************************)
\* The mutated toParams call of claim C16: the sort rules are handed out
\* and the builder's list is emptied.
Builder_toParams_draining(h, this) ==
    [h |-> [h EXCEPT ![this.sortBy] = <<>>], this |-> this, ret |-> toParams(h, this)]

Builder_toParams(h, this) == [h |-> h, this |-> this, ret |-> toParams(h, this)]

\* return toQueryString(this.toParams())
Builder_toQueryString(h, this) ==
    LET st == Builder_toParams(h, this)
    IN  [h |-> st.h, this |-> st.this, ret |-> toQueryString(st.ret)]

(***************************************************************************)
(* createPaginateParams(input).  input is <<>> when omitted, else <<r>>    *)
(* with r a record of the optional fields (<<>> when undefined): page,     *)
(* limit, sortBy (an array of JS values: the two strings of one tuple, or  *)
(* tuples as arrays), search, searchBy, select (arrays of strings),        *)
(* cursor, withDeleted, filter (an object: properties [key, val], val a    *)
(* string PStr or an array of strings PArr).                               *)
(***************************************************************************)
\* The mutated loop of claim C15: only the first tuple of a list is used.
SortByEach_firstOnly(st, entries) ==
    IF entries = <<>> THEN st
    ELSE sortBy(st.h, st.this, Head(entries).arr[1].s, Head(entries).arr[2].s)

RECURSIVE SortByEach(_, _)
\* for (const entry of input.sortBy) builder.sortBy(entry[0], entry[1])
SortByEach(st, entries) ==
    IF entries = <<>> THEN st
    ELSE SortByEach(sortBy(st.h, st.this, Head(entries).arr[1].s, Head(entries).arr[2].s),
                    Tail(entries))

RECURSIVE FilterEach(_, _)
\* for (const [col, token] of Object.entries(input.filter))
\*   builder.filter(col, token): an array token is the input's own array.
FilterEach(st, entries) ==
    IF entries = <<>> THEN st
    ELSE LET e == Head(entries)
         IN  FilterEach(IF e.val.isArray
                        THEN filter(Append(st.h, e.val.arr), st.this, e.key,
                                    RefVal(Len(st.h) + 1))
                        ELSE filter(st.h, st.this, e.key, StrVal(e.val.str)),
                        Tail(entries))

\* The statements of createPaginateParams, one per field of the input:
\* each takes the heap and builder [h, this] so far and the input record.
InputPage(st, inp) ==
    IF inp.page # <<>> THEN page(st.h, st.this, inp.page[1]) ELSE st

InputLimit(st, inp) ==
    IF inp.limit # <<>> THEN limit(st.h, st.this, inp.limit[1]) ELSE st

InputSortBy(st, inp) ==
    IF inp.sortBy # <<>> /\ Len(inp.sortBy[1]) > 0
    THEN IF inp.sortBy[1][1].kind = "array"
         THEN SortByEach(st, inp.sortBy[1])
         ELSE sortBy(st.h, st.this, inp.sortBy[1][1].s, inp.sortBy[1][2].s)
    ELSE st

InputSearch(st, inp) ==
    IF inp.search # <<>> THEN search(st.h, st.this, inp.search[1]) ELSE st

InputSearchBy(st, inp) ==
    IF inp.searchBy # <<>>
    THEN searchBy(Append(st.h, inp.searchBy[1]), st.this, Len(st.h) + 1)
    ELSE st

InputSelect(st, inp) ==
    IF inp.select # <<>>
    THEN select(Append(st.h, inp.select[1]), st.this, Len(st.h) + 1)
    ELSE st

InputCursor(st, inp) ==
    IF inp.cursor # <<>> THEN cursor(st.h, st.this, inp.cursor[1]) ELSE st

InputWithDeleted(st, inp) ==
    IF inp.withDeleted # <<>> THEN withDeleted(st.h, st.this, inp.withDeleted[1])
    ELSE st

InputFilter(st, inp) ==
    IF inp.filter # <<>> THEN FilterEach(st, ObjectEntries(inp.filter[1])) ELSE st

createPaginateParams(h, input) ==
    IF input = <<>> THEN NewBuilder(h)
    ELSE InputFilter(
           InputWithDeleted(
             InputCursor(
               InputSelect(
                 InputSearchBy(
                   InputSearch(
                     InputSortBy(
                       InputLimit(
                         InputPage(NewBuilder(h), input[1]),
                         input[1]),
                       input[1]),
                     input[1]),
                   input[1]),
                 input[1]),
               input[1]),
             input[1]),
           input[1])

(***************************************************************************)
(* Column paths.  Column<T, D> is a type-level function; here a type is a  *)
(* record [kind, name]: a primitive (string, number, boolean, Date), a     *)
(* record type named in the shape, an array of primitives or of a record   *)
(* type, or another type.  A shape maps each record type name to its       *)
(* fields, and each field to its type; Absent marks no such field.         *)
(***************************************************************************)
TPrimitive   == [kind |-> "primitive", name |-> ""]
TRecord(n)   == [kind |-> "record", name |-> n]
TArray(n)    == [kind |-> "array", name |-> n]
TArrayOfPrim == [kind |-> "array", name |-> ""]
TOther       == [kind |-> "other", name |-> ""]
Absent       == [kind |-> "absent", name |-> ""]

\* The depth `never`, and Prev = [never, 0, 1, 2, ...].
Never == -1

Prev(D) == IF D = 0 THEN Never ELSE D - 1

\* D extends number = 2
DefaultDepth == 2

\* Join<K, P>: `${K}${'' extends P ? '' : '.'}${P}`
JoinPath(K, P) == K \o (IF P = <<>> THEN <<>> ELSE <<".">>) \o P

\* The element type U of an array type.
ElementType(F) == IF F.name = "" THEN TPrimitive ELSE TRecord(F.name)

\* The mutated Column of claim C17: the keys of T only.
Column_ownKeys(shape, T, D) ==
    IF D = Never THEN {}
    ELSE IF T.kind # "record" THEN {<<>>}
    ELSE {K \in DOMAIN shape[T.name] : shape[T.name][K] # Absent}

RECURSIVE Column(_, _, _)
Column(shape, T, D) ==
    IF D = Never THEN {}
    ELSE IF T.kind # "record" THEN {<<>>}
    ELSE UNION {
        LET F == shape[T.name][K]
        IN  IF F.kind = "array"
            THEN {K} \cup {JoinPath(K, P) : P \in Column(shape, ElementType(F), Prev(D))}
            ELSE IF F.kind = "record"
            THEN {K} \cup {JoinPath(K, P) : P \in Column(shape, F, Prev(D))}
            ELSE {K}
        : K \in {k \in DOMAIN shape[T.name] : shape[T.name][k] # Absent}}

ColumnPath(shape, T) == Column(shape, T, DefaultDepth)

(***************************************************************************)
(* fromQueryString.  The loop state is [threw, h, this, searchByValues,    *)
(* filterMap]; threw is TRUE once decodeURIComponent has thrown, and the   *)
(* exception leaves the function.  filterMap is the sequence of its        *)
(* properties [key, val], val the list of values pushed for that column.   *)
(***************************************************************************)
With(acc, st) == [acc EXCEPT !.h = st.h, !.this = st.this]

\* filterMap is an object literal: for these column names filterMap[col] is
\* the property inherited from Object.prototype (truthy, and no array), so
\* no list is created and filterMap[col].push is not a function: TypeError.
ObjectPrototypeProps ==
    {<<"c", "o", "n", "s", "t", "r", "u", "c", "t", "o", "r">>,
     <<"t", "o", "S", "t", "r", "i", "n", "g">>,
     <<"_", "_", "p", "r", "o", "t", "o", "_", "_">>}

\* filterMap[col].push(val), after creating the list if there was none.
PushFilter(filterMap, col, val) ==
    IF \E i \in 1..Len(filterMap) : filterMap[i].key = col
    THEN [i \in 1..Len(filterMap) |->
             IF filterMap[i].key = col
             THEN [key |-> col, val |-> Append(filterMap[i].val, val)]
             ELSE filterMap[i]]
    ELSE Append(filterMap, [key |-> col, val |-> <<val>>])

\* The if / else-if chain on the decoded key.
Dispatch(acc, key, val) ==
    IF key = KeyPage
    THEN IF parseInt(val) # <<>> THEN With(acc, page(acc.h, acc.this, parseInt(val)[1]))
         ELSE acc
    ELSE IF key = KeyLimit
    THEN IF parseInt(val) # <<>> THEN With(acc, limit(acc.h, acc.this, parseInt(val)[1]))
         ELSE acc
    ELSE IF key = KeySortBy
    THEN LET colonIdx == LastIndexOf(val, ":")
         IN  IF colonIdx # 0
             THEN With(acc, sortBy(acc.h, acc.this, SubSeq(val, 1, colonIdx - 1),
                                   SubSeq(val, colonIdx + 1, Len(val))))
             ELSE acc
    ELSE IF key = KeySearch THEN With(acc, search(acc.h, acc.this, val))
    ELSE IF key = KeySearchBy
    THEN [acc EXCEPT !.searchByValues = Append(@, val)]
    ELSE IF key = KeySelect
    THEN \* val.split(',') is a new array, handed to select
         With(acc, select(Append(acc.h, Split(val, ",")), acc.this, Len(acc.h) + 1))
    ELSE IF key = KeyCursor THEN With(acc, cursor(acc.h, acc.this, val))
    ELSE IF key = KeyWithDeleted
    THEN With(acc, withDeleted(acc.h, acc.this, val = StrTrue))
    ELSE IF StartsWith(key, FilterPrefix)
    THEN LET col == SubSeq(key, Len(FilterPrefix) + 1, Len(key))
         IN  IF col \in ObjectPrototypeProps THEN [acc EXCEPT !.threw = TRUE]
             ELSE [acc EXCEPT !.filterMap = PushFilter(@, col, val)]
    ELSE acc

\* One iteration of the loop over queryStr.split('&').
ParsePair(acc, pair) ==
    IF acc.threw \/ pair = <<>> \/ IndexOf(pair, "=") = 0 THEN acc
    ELSE LET eqIdx == IndexOf(pair, "=")
             key   == decodeURIComponent(SubSeq(pair, 1, eqIdx - 1))
             val   == decodeURIComponent(SubSeq(pair, eqIdx + 1, Len(pair)))
         IN  IF ~key.ok \/ ~val.ok THEN [acc EXCEPT !.threw = TRUE]
             ELSE Dispatch(acc, key.str, val.str)

RECURSIVE ParseLoop(_, _)
ParseLoop(acc, pairs) ==
    IF pairs = <<>> THEN acc ELSE ParseLoop(ParsePair(acc, Head(pairs)), Tail(pairs))

RECURSIVE ApplyFilters(_, _)
\* for (const [col, values] of Object.entries(filterMap))
\*   builder.filter(col, values): values is the array held by filterMap.
ApplyFilters(st, entries) ==
    IF entries = <<>> THEN st
    ELSE ApplyFilters(filter(Append(st.h, Head(entries).val), st.this,
                             Head(entries).key, RefVal(Len(st.h) + 1)),
                      Tail(entries))

\* [threw, h, this]: the builder returned, in a heap of its own.
fromQueryString(qs) ==
    LET fresh    == NewBuilder(<<>>)
        queryStr == IF StartsWith(qs, <<"?">>) THEN Tail(qs) ELSE qs
        acc0     == [threw |-> FALSE, h |-> fresh.h, this |-> fresh.this,
                     searchByValues |-> <<>>, filterMap |-> <<>>]
        acc      == ParseLoop(acc0, Split(queryStr, "&"))
        st1      == IF Len(acc.searchByValues) > 0
                    THEN searchBy(Append(acc.h, acc.searchByValues), acc.this,
                                  Len(acc.h) + 1)
                    ELSE [h |-> acc.h, this |-> acc.this]
        st2      == ApplyFilters(st1, ObjectEntries(acc.filterMap))
    IN  IF queryStr = <<>> THEN [threw |-> FALSE, h |-> fresh.h, this |-> fresh.this]
        ELSE IF acc.threw THEN [threw |-> TRUE, h |-> fresh.h, this |-> fresh.this]
        ELSE [threw |-> FALSE, h |-> st2.h, this |-> st2.this]

(***************************************************************************)
(* Inputs of the builder calls.                                            *)
(***************************************************************************)
\* The number of builder calls in a run.
MaxCalls == 3

ColName  == <<"n", "a", "m", "e">>
ColIndex == <<"1">>
Columns  == {ColName, ColIndex}

ASC  == <<"A", "S", "C">>
DESC == <<"D", "E", "S", "C">>
SortDirection == {ASC, DESC}

Numbers == {2, 10}

\* search terms and cursors: the empty string and one with delimiters
Terms   == {<<>>, <<"a", "&", "b">>}
Cursors == {<<>>, <<"c", "=", "1">>}

\* arrays handed to searchBy and select
ColumnLists == {<<>>, <<ColName>>, <<ColName, ColIndex>>}

TokenA == eq(Str(<<"A">>))
TokenB == eq(Str(<<"B">>))

\* filter(column, token): a token string, or an array of tokens
TokenStrings == {<<>>, TokenA, TokenB}
TokenLists   == {<<>>, <<TokenA>>, <<TokenA, TokenB>>}

(***************************************************************************)
(* State of the builder runs: the heap, the builder b made by              *)
(* createPaginateParams(), and c, empty until b.clone() has been called.   *)
(* calls, sortLog, filterLog and flagLog record what was called (they are  *)
(* not read by any operation): per builder the number of calls made on     *)
(* it, the sortBy rules passed, per column whether filter was called and   *)
(* the tokens passed to it in call order, and the argument of the latest   *)
(* withDeleted call.  filterOrder is per builder the columns passed to     *)
(* filter, in the order of their first call.  A clone starts with the      *)
(* record of its original.                                                 *)
(*                                                                         *)
(* State of the codec runs: tcall is the helper called with its            *)
(* arguments, tres its outcome [threw, str], wraps the number of not / or  *)
(* / and applied to it.                                                    *)
(*                                                                         *)
(* State of the runs of one function (toQueryString(params),               *)
(* fromQueryString, ColumnPath, createPaginateParams(input)): input is     *)
(* <<>> or the argument <<x>>, output is <<>> or the result <<r>>.         *)
(* serial is <<>> or the latest serialising call made on a builder since   *)
(* the last mutator call: which builder, which method, what it returned,   *)
(* and the number n of serialising calls made since that mutator call.     *)
(***************************************************************************)
VARIABLES heap, b, c, calls, sortLog, filterLog, flagLog, filterOrder,
          tcall, tres, wraps,
          input, output, serial

builderVars == <<heap, b, c, calls, sortLog, filterLog, flagLog, filterOrder>>
codecVars   == <<tcall, tres, wraps>>
callVars    == <<input, output, serial>>
vars        == <<heap, b, c, calls, sortLog, filterLog, flagLog, filterOrder,
                 tcall, tres, wraps, input, output, serial>>

(***************************************************************************)
(* Cells no builder refers to cannot be observed; after every call the     *)
(* heap keeps the referenced cells only, numbered in the order in which b  *)
(* and then c refer to them.                                               *)
(***************************************************************************)
BuilderRefs(h, this) ==
    <<this.sortBy, this.searchBy, this.select, this.filter>>
    \o [i \in 1..Len(ArrayProps(h[this.filter])) |-> ArrayProps(h[this.filter])[i].val.ref]

RECURSIVE Dedup(_, _)
Dedup(seen, refs) ==
    IF refs = <<>> THEN seen
    ELSE IF \E i \in 1..Len(seen) : seen[i] = Head(refs) THEN Dedup(seen, Tail(refs))
    ELSE Dedup(Append(seen, Head(refs)), Tail(refs))

Collect(h, bb, cc) ==
    LET order   == Dedup(<<>>, BuilderRefs(h, bb)
                               \o (IF cc = <<>> THEN <<>> ELSE BuilderRefs(h, cc[1])))
        pos(a)  == CHOOSE i \in 1..Len(order) : order[i] = a
        objs    == {bb.filter} \cup (IF cc = <<>> THEN {} ELSE {cc[1].filter})
        move(x) == [x EXCEPT !.sortBy = pos(@), !.searchBy = pos(@),
                             !.select = pos(@), !.filter = pos(@)]
        cell(a) == IF a \in objs
                   THEN [i \in 1..Len(h[a]) |->
                            IF h[a][i].val.isArray
                            THEN [key |-> h[a][i].key, val |-> RefVal(pos(h[a][i].val.ref))]
                            ELSE h[a][i]]
                   ELSE h[a]
    IN  [h |-> [i \in 1..Len(order) |-> cell(order[i])],
         b |-> move(bb),
         c |-> IF cc = <<>> THEN <<>> ELSE <<move(cc[1])>>]

Targets == IF c = <<>> THEN {"b"} ELSE {"b", "c"}

Get(t) == IF t = "b" THEN b ELSE c[1]

\* The state after builder t has run a call that returned st = [h, this].
Commit(t, st) ==
    LET r == Collect(st.h, IF t = "b" THEN st.this ELSE b,
                     IF t = "c" THEN <<st.this>> ELSE c)
    IN  heap' = r.h /\ b' = r.b /\ c' = r.c

NoFilterCalls == [column \in Columns |-> [called |-> FALSE, tokens |-> <<>>]]

TotalCalls == calls["b"] + calls["c"]

InitBuilder ==
    /\ heap = NewBuilder(<<>>).h
    /\ b = NewBuilder(<<>>).this
    /\ c = <<>>
    /\ calls = [t \in {"b", "c"} |-> 0]
    /\ sortLog = [t \in {"b", "c"} |-> <<>>]
    /\ filterLog = [t \in {"b", "c"} |-> NoFilterCalls]
    /\ flagLog = [t \in {"b", "c"} |-> <<>>]
    /\ filterOrder = [t \in {"b", "c"} |-> <<>>]

\* A call of a mutator ends the run of serialising calls.
Called(t) ==
    /\ calls' = [calls EXCEPT ![t] = @ + 1]
    /\ serial' = <<>>
    /\ UNCHANGED <<codecVars, input, output>>

\* The columns passed to filter so far, in first-call order.
FirstPassed(order, column) ==
    IF \E i \in 1..Len(order) : order[i] = column THEN order ELSE Append(order, column)

Page ==
    /\ TotalCalls < MaxCalls
    /\ \E t \in Targets, n \in Numbers :
          Commit(t, page(heap, Get(t), n)) /\ Called(t)
    /\ UNCHANGED <<sortLog, filterLog, flagLog, filterOrder>>

Limit ==
    /\ TotalCalls < MaxCalls
    /\ \E t \in Targets, n \in Numbers :
          Commit(t, limit(heap, Get(t), n)) /\ Called(t)
    /\ UNCHANGED <<sortLog, filterLog, flagLog, filterOrder>>

SortByCall ==
    /\ TotalCalls < MaxCalls
    /\ \E t \in Targets, column \in Columns, direction \in SortDirection :
          /\ Commit(t, sortBy(heap, Get(t), column, direction))
          /\ Called(t)
          /\ sortLog' = [sortLog EXCEPT ![t] = Append(@, <<column, direction>>)]
    /\ UNCHANGED <<filterLog, flagLog, filterOrder>>

Search ==
    /\ TotalCalls < MaxCalls
    /\ \E t \in Targets, term \in Terms :
          Commit(t, search(heap, Get(t), term)) /\ Called(t)
    /\ UNCHANGED <<sortLog, filterLog, flagLog, filterOrder>>

\* The caller's array literal is a cell of its own, dropped after the call.
SearchBy ==
    /\ TotalCalls < MaxCalls
    /\ \E t \in Targets, columns \in ColumnLists :
          /\ Commit(t, searchBy(Append(heap, columns), Get(t), Len(heap) + 1))
          /\ Called(t)
    /\ UNCHANGED <<sortLog, filterLog, flagLog, filterOrder>>

Select ==
    /\ TotalCalls < MaxCalls
    /\ \E t \in Targets, columns \in ColumnLists :
          /\ Commit(t, select(Append(heap, columns), Get(t), Len(heap) + 1))
          /\ Called(t)
    /\ UNCHANGED <<sortLog, filterLog, flagLog, filterOrder>>

FilterString ==
    /\ TotalCalls < MaxCalls
    /\ \E t \in Targets, column \in Columns, token \in TokenStrings :
          /\ Commit(t, filter(heap, Get(t), column, StrVal(token)))
          /\ Called(t)
          /\ filterLog' = [filterLog EXCEPT ![t][column] =
                              [called |-> TRUE, tokens |-> Append(@.tokens, token)]]
          /\ filterOrder' = [filterOrder EXCEPT ![t] = FirstPassed(@, column)]
    /\ UNCHANGED <<sortLog, flagLog>>

FilterArray ==
    /\ TotalCalls < MaxCalls
    /\ \E t \in Targets, column \in Columns, tokens \in TokenLists :
          /\ Commit(t, filter(Append(heap, tokens), Get(t), column,
                              RefVal(Len(heap) + 1)))
          /\ Called(t)
          /\ filterLog' = [filterLog EXCEPT ![t][column] =
                              [called |-> TRUE, tokens |-> @.tokens \o tokens]]
          /\ filterOrder' = [filterOrder EXCEPT ![t] = FirstPassed(@, column)]
    /\ UNCHANGED <<sortLog, flagLog>>

Cursor ==
    /\ TotalCalls < MaxCalls
    /\ \E t \in Targets, cur \in Cursors :
          Commit(t, cursor(heap, Get(t), cur)) /\ Called(t)
    /\ UNCHANGED <<sortLog, filterLog, flagLog, filterOrder>>

WithDeleted ==
    /\ TotalCalls < MaxCalls
    /\ \E t \in Targets, value \in BOOLEAN :
          /\ Commit(t, withDeleted(heap, Get(t), value))
          /\ Called(t)
          /\ flagLog' = [flagLog EXCEPT ![t] = <<value>>]
    /\ UNCHANGED <<sortLog, filterLog, filterOrder>>

\* c = b.clone(), once
Clone ==
    /\ TotalCalls < MaxCalls
    /\ c = <<>>
    /\ LET st == clone(heap, b)
           r  == Collect(st.h, b, <<st.this>>)
       IN  heap' = r.h /\ b' = r.b /\ c' = r.c
    /\ Called("b")
    /\ sortLog' = [sortLog EXCEPT !["c"] = sortLog["b"]]
    /\ filterLog' = [filterLog EXCEPT !["c"] = filterLog["b"]]
    /\ flagLog' = [flagLog EXCEPT !["c"] = flagLog["b"]]
    /\ filterOrder' = [filterOrder EXCEPT !["c"] = filterOrder["b"]]

(***************************************************************************)
(* Calls of the codec.  A run is one call of buildFilterToken or of a      *)
(* helper, followed by applications of not / or / and to its token.        *)
(***************************************************************************)
\* The number of not / or / and applied on top of a helper's token.
MaxWraps == 2

Foo == <<"f", "o", "o">>

\* the `value` option: omitted, strings, a number, a [min, max] pair
Values == {Undef, Str(Foo), Str(<<"a", ",", "b">>), Num(5), Arr(<<Num(1), Num(10)>>)}

\* scalar arguments of the one-value helpers
Scalars == {Str(Foo), Num(5), Num(42)}

\* an array argument of inOp / contains
ValueArrays == {Arr(<<>>), Arr(<<Num(1), Num(2)>>),
                Arr(<<Str(<<"a">>), Str(<<"b">>), Str(<<"c">>)>>)}

\* argument lists of a call contains(...)
ContainsArgs == {<<v>> : v \in ValueArrays}
                \cup {<<Num(1)>>, <<Num(1), Num(2)>>,
                      <<Str(<<"a">>), Str(<<"b">>), Str(<<"c">>)>>}

NoOptions == Options(<<>>, <<>>, <<>>, Undef)

TCall(fn, options, args, token) ==
    [fn |-> fn, options |-> options, args |-> args, token |-> token]

Returned(str) == [threw |-> FALSE, str |-> str]
Threw         == [threw |-> TRUE, str |-> <<>>]

InitCodec ==
    /\ tcall = TCall("none", NoOptions, <<>>, <<>>)
    /\ tres = Returned(<<>>)
    /\ wraps = 0

InitCalls ==
    /\ input = <<>>
    /\ output = <<>>
    /\ serial = <<>>

Init == InitBuilder /\ InitCodec /\ InitCalls

BuildFilterToken ==
    /\ tcall.fn = "none"
    /\ \E comparator \in {<<>>} \cup {<<x>> : x \in FilterComparator},
          suffix \in {<<>>} \cup {<<x>> : x \in FilterSuffix},
          operator \in FilterOperator, value \in Values :
          LET options == Options(comparator, suffix, operator, value)
          IN  /\ tcall' = TCall("buildFilterToken", options, <<>>, <<>>)
              /\ tres' = Returned(buildFilterToken(options))
    /\ wraps' = 0
    /\ UNCHANGED <<builderVars, callVars>>

\* eq, gt, gte, lt, lte, ilike, sw: one scalar argument
ScalarHelper ==
    /\ tcall.fn = "none"
    /\ \E fn \in {"eq", "gt", "gte", "lt", "lte", "ilike", "sw"}, value \in Scalars :
          /\ tcall' = TCall(fn, NoOptions, <<value>>, <<>>)
          /\ tres' = Returned(CASE fn = "eq" -> eq(value)
                                [] fn = "gt" -> gt(value)
                                [] fn = "gte" -> gte(value)
                                [] fn = "lt" -> lt(value)
                                [] fn = "lte" -> lte(value)
                                [] fn = "ilike" -> ilike(value)
                                [] fn = "sw" -> sw(value))
    /\ wraps' = 0
    /\ UNCHANGED <<builderVars, callVars>>

NullOp ==
    /\ tcall.fn = "none"
    /\ tcall' = TCall("nullOp", NoOptions, <<>>, <<>>)
    /\ tres' = Returned(nullOp)
    /\ wraps' = 0
    /\ UNCHANGED <<builderVars, callVars>>

Btw ==
    /\ tcall.fn = "none"
    /\ \E min \in {Num(1), Num(4)}, max \in {Num(5), Num(10)} :
          /\ tcall' = TCall("btw", NoOptions, <<min, max>>, <<>>)
          /\ tres' = Returned(btw(min, max))
    /\ wraps' = 0
    /\ UNCHANGED <<builderVars, callVars>>

InOp ==
    /\ tcall.fn = "none"
    /\ \E values \in ValueArrays :
          /\ tcall' = TCall("inOp", NoOptions, <<values>>, <<>>)
          /\ tres' = Returned(inOp(values))
    /\ wraps' = 0
    /\ UNCHANGED <<builderVars, callVars>>

\* contains(...args): the function reads its first argument only and calls
\* .map on it, which throws TypeError when that is not an array.
Contains ==
    /\ tcall.fn = "none"
    /\ \E args \in ContainsArgs :
          /\ tcall' = TCall("contains", NoOptions, args, <<>>)
          /\ tres' = IF args[1].kind = "array" THEN Returned(contains(args[1]))
                     ELSE Threw
    /\ wraps' = 0
    /\ UNCHANGED <<builderVars, callVars>>

Wrappable == tcall.fn # "none" /\ ~tres.threw /\ wraps < MaxWraps

Not ==
    /\ Wrappable
    /\ tcall' = TCall("not", NoOptions, <<>>, tres.str)
    /\ tres' = Returned(not(tres.str))
    /\ wraps' = wraps + 1
    /\ UNCHANGED <<builderVars, callVars>>

Or ==
    /\ Wrappable
    /\ tcall' = TCall("or", NoOptions, <<>>, tres.str)
    /\ tres' = Returned(or(tres.str))
    /\ wraps' = wraps + 1
    /\ UNCHANGED <<builderVars, callVars>>

And ==
    /\ Wrappable
    /\ tcall' = TCall("and", NoOptions, <<>>, tres.str)
    /\ tres' = Returned(and(tres.str))
    /\ wraps' = wraps + 1
    /\ UNCHANGED <<builderVars, callVars>>

Next ==
    \/ Page \/ Limit \/ SortByCall \/ Search \/ SearchBy \/ Select
    \/ FilterString \/ FilterArray \/ Cursor \/ WithDeleted \/ Clone

Spec == Init /\ [][Next]_vars

NextCodec ==
    \/ BuildFilterToken \/ ScalarHelper \/ NullOp \/ Btw \/ InOp \/ Contains
    \/ Not \/ Or \/ And

SpecCodec == Init /\ [][NextCodec]_vars

(***************************************************************************)
(* Serialising calls between the mutator calls of a builder run.           *)
(***************************************************************************)
\* The number of mutator calls in a run with serialising calls.
MaxMutators == 2

\* The number of serialising calls in a row.
MaxReads == 2

Readable == IF serial = <<>> THEN TRUE ELSE serial[1].n < MaxReads

Read(t, fn, st) ==
    /\ Commit(t, st)
    /\ serial' = <<[t |-> t, fn |-> fn, ret |-> st.ret,
                    n |-> IF serial = <<>> THEN 1 ELSE serial[1].n + 1]>>
    /\ UNCHANGED <<calls, sortLog, filterLog, flagLog, filterOrder, codecVars,
                   input, output>>

BuilderToParams ==
    /\ Readable
    /\ \E t \in Targets : Read(t, "toParams", Builder_toParams(heap, Get(t)))

BuilderToQueryString ==
    /\ Readable
    /\ \E t \in Targets : Read(t, "toQueryString", Builder_toQueryString(heap, Get(t)))

Mutator == TotalCalls < MaxMutators /\ Next

NextSerial == Mutator \/ BuilderToParams \/ BuilderToQueryString

SpecSerial == Init /\ [][NextSerial]_vars

(***************************************************************************)
(* createPaginateParams(input), compared with a builder on which the       *)
(* setters were called one by one.  b is the builder made by               *)
(* createPaginateParams(input) and c the one made by the setter calls;     *)
(* every further mutator call is made on both.                             *)
(***************************************************************************)
\* The number of mutator calls made on both builders after construction.
MaxFurther == 1

Tuple(column, direction) == <<Str(column), Str(direction)>>

\* the sortBy field: omitted, empty, one tuple, a list of one, a list of two
SortByInputs ==
    {<<>>, << <<>> >>, <<Tuple(ColName, DESC)>>,
     << <<Arr(Tuple(ColName, ASC))>> >>,
     << <<Arr(Tuple(ColIndex, DESC)), Arr(Tuple(ColName, ASC))>> >>}

\* the filter field: omitted, or an object
FilterInputs ==
    {<<>>, << <<>> >>,
     << <<[key |-> ColName, val |-> PStr(TokenA)]>> >>,
     << <<[key |-> ColName, val |-> PArr(<<TokenA, TokenB>>)],
          [key |-> ColIndex, val |-> PStr(TokenB)]>> >>,
     << <<[key |-> ColName, val |-> PArr(<<>>)]>> >>,
     << <<[key |-> ColIndex, val |-> PArr(<<TokenA>>)]>> >>}

\* page, limit, search, searchBy, select, cursor: all omitted, all given,
\* all given with the empty or the other value
PlainInputs ==
    {[page |-> <<>>, limit |-> <<>>, search |-> <<>>, searchBy |-> <<>>,
      select |-> <<>>, cursor |-> <<>>],
     [page |-> <<2>>, limit |-> <<10>>, search |-> << <<"a", "&", "b">> >>,
      searchBy |-> << <<ColName>> >>, select |-> << <<ColName, ColIndex>> >>,
      cursor |-> << <<"c", "=", "1">> >>],
     [page |-> <<10>>, limit |-> <<2>>, search |-> << <<>> >>,
      searchBy |-> << <<>> >>, select |-> << <<>> >>, cursor |-> << <<>> >>]}

CreateInputs ==
    {<<>>} \cup
    {<<[page |-> p.page, limit |-> p.limit, sortBy |-> s, search |-> p.search,
        searchBy |-> p.searchBy, select |-> p.select, cursor |-> p.cursor,
        withDeleted |-> w, filter |-> f]>> :
        p \in PlainInputs, s \in SortByInputs,
        w \in {<<>>, <<TRUE>>, <<FALSE>>}, f \in FilterInputs}

\* The sort tuples of an input, whichever form was used, as <<column,
\* direction>> pairs in list order.
SortTuples(inp) ==
    IF inp.sortBy = <<>> \/ inp.sortBy[1] = <<>> THEN <<>>
    ELSE IF inp.sortBy[1][1].kind = "string"
    THEN << <<inp.sortBy[1][1].s, inp.sortBy[1][2].s>> >>
    ELSE [i \in 1..Len(inp.sortBy[1]) |->
             <<inp.sortBy[1][i].arr[1].s, inp.sortBy[1][i].arr[2].s>>]

RECURSIVE CallSortBy(_, _)
CallSortBy(st, tuples) ==
    IF tuples = <<>> THEN st
    ELSE CallSortBy(sortBy(st.h, st.this, Head(tuples)[1], Head(tuples)[2]), Tail(tuples))

RECURSIVE CallFilter(_, _)
CallFilter(st, props) ==
    IF props = <<>> THEN st
    ELSE CallFilter(IF Head(props).val.isArray
                    THEN filter(Append(st.h, Head(props).val.arr), st.this,
                                Head(props).key, RefVal(Len(st.h) + 1))
                    ELSE filter(st.h, st.this, Head(props).key,
                                StrVal(Head(props).val.str)),
                    Tail(props))

\* One setter call, when the field is present.
CallPlain(st, inp, field) ==
    CASE inp[field] = <<>>     -> st
      [] OTHER ->
         CASE field = "page"        -> page(st.h, st.this, inp.page[1])
           [] field = "limit"       -> limit(st.h, st.this, inp.limit[1])
           [] field = "search"      -> search(st.h, st.this, inp.search[1])
           [] field = "searchBy"    ->
                  searchBy(Append(st.h, inp.searchBy[1]), st.this, Len(st.h) + 1)
           [] field = "select"      ->
                  select(Append(st.h, inp.select[1]), st.this, Len(st.h) + 1)
           [] field = "cursor"      -> cursor(st.h, st.this, inp.cursor[1])
           [] field = "withDeleted" ->
                  withDeleted(st.h, st.this, inp.withDeleted[1])

RECURSIVE CallPlainEach(_, _, _)
CallPlainEach(st, inp, fields) ==
    IF fields = <<>> THEN st
    ELSE CallPlainEach(CallPlain(st, inp, Head(fields)), inp, Tail(fields))

\* new PaginateQueryBuilder() followed by one setter call per field present
\* in the input: the filter calls first (in the order the input lists the
\* columns), then the sort rules, then the other setters.
SetterCalls(h, x) ==
    IF x = <<>> THEN NewBuilder(h)
    ELSE CallPlainEach(
           CallSortBy(
             IF x[1].filter # <<>> THEN CallFilter(NewBuilder(h), x[1].filter[1])
             ELSE NewBuilder(h),
             SortTuples(x[1])),
           x[1],
           <<"withDeleted", "cursor", "select", "searchBy", "search", "limit", "page">>)

\* b is the builder of sb = createPaginateParams(input), c the one made by
\* the setter calls.
Created(sb, sc) ==
    LET r == Collect(sc.h, sb.this, <<sc.this>>)
    IN  heap' = r.h /\ b' = r.b /\ c' = r.c

CreatedBoth(sb, x) == Created(sb, SetterCalls(sb.h, x))

CreatePaginateParams ==
    /\ input = <<>>
    /\ \E x \in CreateInputs :
          /\ CreatedBoth(createPaginateParams(<<>>, x), x)
          /\ input' = <<x>>
    /\ UNCHANGED <<calls, sortLog, filterLog, flagLog, filterOrder, codecVars,
                   output, serial>>

Mutators == {"page", "limit", "sortBy", "search", "searchBy", "select",
             "filter", "filterArray", "cursor", "withDeleted"}

\* One mutator call on a builder, by name; each call uses the arguments
\* that apply to it.
Mutate(h, this, op, column, tokens, value) ==
    CASE op = "page"        -> page(h, this, 2)
      [] op = "limit"       -> limit(h, this, 10)
      [] op = "sortBy"      -> sortBy(h, this, column, DESC)
      [] op = "search"      -> search(h, this, <<>>)
      [] op = "searchBy"    -> searchBy(Append(h, <<ColName>>), this, Len(h) + 1)
      [] op = "select"      -> select(Append(h, <<>>), this, Len(h) + 1)
      [] op = "filter"      -> filter(h, this, column, StrVal(TokenB))
      [] op = "filterArray" -> filter(Append(h, tokens), this, column,
                                      RefVal(Len(h) + 1))
      [] op = "cursor"      -> cursor(h, this, <<>>)
      [] op = "withDeleted" -> withDeleted(h, this, value)

\* An argument a call does not use is given one value only.
Used(op, column, tokens, value) ==
    /\ op \notin {"sortBy", "filter", "filterArray"} => column = ColName
    /\ op # "filterArray" => tokens = <<>>
    /\ op # "withDeleted" => value

\* sb is the heap and b after the call; the same call is made on c.
MutatedBoth(sb, op, column, tokens, value) ==
    Created(sb, Mutate(sb.h, c[1], op, column, tokens, value))

\* The same mutator call on b and on c.
FurtherCall ==
    /\ input # <<>>
    /\ calls["b"] < MaxFurther
    /\ \E op \in Mutators, column \in Columns,
          tokens \in {<<>>, <<TokenA, TokenB>>}, value \in BOOLEAN :
          /\ Used(op, column, tokens, value)
          /\ MutatedBoth(Mutate(heap, b, op, column, tokens, value),
                         op, column, tokens, value)
    /\ calls' = [t \in {"b", "c"} |-> calls[t] + 1]
    /\ UNCHANGED <<sortLog, filterLog, flagLog, filterOrder, codecVars, callVars>>

NextCreate == CreatePaginateParams \/ FurtherCall

SpecCreate == Init /\ [][NextCreate]_vars

(***************************************************************************)
(* Runs of one function: the argument is drawn at the start, the action    *)
(* applies the function to it.                                             *)
(***************************************************************************)
\* The number of keys of a params object handed to toQueryString.
MaxKeys == 3

ParamKeys == {KeySearch, KeySortBy, <<"1">>, <<"a", "&", "b">>}

ParamValues ==
    {PNull, PStr(<<>>), PStr(<<"v">>), PArr(<<>>), PArr(<< <<>> >>),
     PArr(<< <<"x">>, <<>>, <<"y", ",", "z">> >>)}

\* The argument is an object of at most MaxKeys properties, in any
\* insertion order.
InitParams ==
    /\ InitBuilder /\ InitCodec
    /\ \E n \in 0..MaxKeys :
          \E p \in [1..n -> [key : ParamKeys, val : ParamValues]] :
              /\ \A i, j \in 1..n : p[i].key = p[j].key => i = j
              /\ input = <<p>>
    /\ output = <<>>
    /\ serial = <<>>

ToQueryString ==
    /\ output = <<>>
    /\ output' = <<toQueryString(input[1])>>
    /\ UNCHANGED <<builderVars, codecVars, input, serial>>

NextParams == ToQueryString

SpecParams == InitParams /\ [][NextParams]_vars

\* The number of '&'-separated fragments of a query string.
MaxFragments == 3

\* The fragments a query string is made of: 'page=2', 'page=x', 'page=7x',
\* 'page=007', 'page=', 'limit=5', 'limit=-3', 'limit=x', 'nokey', 'foo=1',
\* 'sortBy=name', 'sortBy=name%3AASC', 'cursor=%', 'filter.name=%24eq%3AA',
\* 'filter.constructor=x' and ''.
FragPage2 == <<"p", "a", "g", "e", "=", "2">>

FragPageX == <<"p", "a", "g", "e", "=", "x">>

FragPage7x == <<"p", "a", "g", "e", "=", "7", "x">>

FragPage007 == <<"p", "a", "g", "e", "=", "0", "0", "7">>

FragPageEmpty == <<"p", "a", "g", "e", "=">>

FragLimit5 == <<"l", "i", "m", "i", "t", "=", "5">>

FragLimitNeg == <<"l", "i", "m", "i", "t", "=", "-", "3">>

FragLimitX == <<"l", "i", "m", "i", "t", "=", "x">>

FragNoEquals == <<"n", "o", "k", "e", "y">>

FragUnknownKey == <<"f", "o", "o", "=", "1">>

FragSortNoColon == <<"s", "o", "r", "t", "B", "y", "=", "n", "a", "m", "e">>

FragSortBy == <<"s", "o", "r", "t", "B", "y", "=", "n", "a", "m", "e", "%", "3", "A", "A", "S", "C">>

FragBadPercent == <<"c", "u", "r", "s", "o", "r", "=", "%">>

FragFilter == <<"f", "i", "l", "t", "e", "r", ".", "n", "a", "m", "e", "=", "%", "2", "4", "e", "q", "%", "3", "A", "A">>

FragFilterConstructor == <<"f", "i", "l", "t", "e", "r", ".", "c", "o", "n", "s", "t", "r", "u", "c", "t", "o", "r", "=", "x">>

Fragments ==
    {FragPage2, FragPageX, FragPage7x, FragPage007, FragPageEmpty,
     FragLimit5, FragLimitNeg, FragLimitX,
     FragNoEquals, FragUnknownKey, FragSortNoColon, FragSortBy, FragBadPercent,
     FragFilter, FragFilterConstructor, <<>>}

\* The argument is a query string, recorded with the fragments it was made
\* of.
InitParse ==
    /\ InitBuilder /\ InitCodec
    /\ \E n \in 0..MaxFragments :
          \E f \in [1..n -> Fragments], prefix \in {<<>>, <<"?">>} :
              input = <<[qs |-> prefix \o Join(f, <<"&">>), fragments |-> f]>>
    /\ output = <<>>
    /\ serial = <<>>

FromQueryString ==
    /\ output = <<>>
    /\ output' = <<fromQueryString(input[1].qs)>>
    /\ UNCHANGED <<builderVars, codecVars, input, serial>>

NextParse == FromQueryString

SpecParse == InitParse /\ [][NextParse]_vars

(***************************************************************************)
(* fromQueryString on a query string made of key / value pairs, each       *)
(* written as encodeURIComponent(key) '=' encodeURIComponent(value): the   *)
(* argument is recorded with the pairs it was made of.                     *)
(***************************************************************************)
\* The number of pairs of a query string.
MaxPairs == 3

KV(key, val) == [key |-> key, val |-> val]

\* a column path that holds the separator of the sortBy value
ColColon == <<"a", ":", "b">>

\* a direction that is neither ASC nor DESC
DirUp == <<"u", "p">>

PairInputs ==
    {KV(FilterPrefix \o ColName, TokenA), KV(FilterPrefix \o ColName, TokenB),
     KV(FilterPrefix \o ColIndex, TokenB),
     KV(KeySortBy, ColName \o <<":">> \o ASC),
     KV(KeySortBy, ColColon \o <<":">> \o DESC),
     KV(KeySortBy, ColName), KV(KeySortBy, ColName \o <<":">> \o DirUp),
     KV(KeySearch, <<"a", "&", "b">>), KV(KeySearch, <<>>),
     KV(KeyCursor, <<"c", "=", "1">>), KV(KeyCursor, <<"d">>),
     KV(KeyWithDeleted, StrTrue), KV(KeyWithDeleted, StrFalse),
     KV(KeyWithDeleted, <<"1">>),
     KV(KeySearchBy, ColName), KV(KeySearchBy, ColIndex)}

InitPairs ==
    /\ InitBuilder /\ InitCodec
    /\ \E n \in 0..MaxPairs :
          \E p \in [1..n -> PairInputs], prefix \in {<<>>, <<"?">>} :
              input = <<[qs    |-> prefix \o Join([i \in 1..n |->
                                           Pair(p[i].key, p[i].val)], <<"&">>),
                         pairs |-> p]>>
    /\ output = <<>>
    /\ serial = <<>>

NextPairs == FromQueryString

SpecPairs == InitPairs /\ [][NextPairs]_vars

(***************************************************************************)
(* A builder whose search term, cursor, filter column and filter tokens    *)
(* hold the delimiters of the query string, serialised and parsed back.    *)
(* The argument is [search, cursor, column, tokens]; the result is the     *)
(* query string and the builder parsed from it.                            *)
(***************************************************************************)
\* The number of tokens passed to filter.
MaxTokens == 2

\* values with '&', '=', '?', ':' and ',', with a '%' that reads like an
\* escape, and with a space and a '+'
DelimStrings ==
    {<<"a", "&", "b">>, <<"c", "=", "1">>, <<"?", "q">>,
     <<"$", "e", "q", ":", "x", ",", "y">>, <<"%", "2", "6">>, <<"a", " ", "+">>}

DelimColumns == {ColName, <<"a", "=", "b">>, <<"a", "&", "b", ".", "c">>, <<"?", ":", ",">>}

InitEncode ==
    /\ InitBuilder /\ InitCodec
    /\ \E term \in {<<>>} \cup {<<x>> : x \in DelimStrings},
          cur \in {<<>>} \cup {<<x>> : x \in DelimStrings},
          column \in DelimColumns, n \in 0..MaxTokens :
          \E tokens \in [1..n -> DelimStrings] :
              input = <<[search |-> term, cursor |-> cur, column |-> column,
                         tokens |-> tokens]>>
    /\ output = <<>>
    /\ serial = <<>>

\* createPaginateParams().search(term).cursor(cur).filter(column, tokens),
\* each call made when the argument has the value.
Encoded(x) ==
    LET st0 == NewBuilder(<<>>)
        st1 == IF x.search = <<>> THEN st0 ELSE search(st0.h, st0.this, x.search[1])
        st2 == IF x.cursor = <<>> THEN st1 ELSE cursor(st1.h, st1.this, x.cursor[1])
    IN  IF x.tokens = <<>> THEN st2
        ELSE filter(Append(st2.h, x.tokens), st2.this, x.column, RefVal(Len(st2.h) + 1))

\* qs = builder.toQueryString(); parsed = fromQueryString(qs)
Reparsed(st) ==
    [qs     |-> Builder_toQueryString(st.h, st.this).ret,
     parsed |-> fromQueryString(Builder_toQueryString(st.h, st.this).ret)]

RoundTrip ==
    /\ output = <<>>
    /\ output' = <<Reparsed(Encoded(input[1]))>>
    /\ UNCHANGED <<builderVars, codecVars, input, serial>>

NextEncode == RoundTrip

SpecEncode == InitEncode /\ [][NextEncode]_vars

(***************************************************************************)
(* Arrays shared between the caller and a builder.  The heap keeps every   *)
(* cell here: the caller still holds the array it passed in and the params *)
(* object it got back.  input is the latest array passed, [op, ref];       *)
(* output is [kind, params, arrays]: kind is "passed" after a call that    *)
(* took an array, "returned" after toParams(), and "callerMutated" or      *)
(* "returnedMutated" after the caller has changed an array it holds;       *)
(* params is what toParams() gave before that change; arrays are the       *)
(* arrays inside the returned params object, [key, ref].                   *)
(***************************************************************************)
\* The number of mutator calls before the caller changes an array.
MaxPasses == 2

\* the element the caller pushes
Pushed == <<"z">>

\* The arrays inside the object toParams() returns: sortBy is a new array
\* (map), searchBy is this._searchBy itself, and a filter property with
\* several tokens is the array held by this._filter.
Builder_toParamsArrays(h, this) ==
    LET rules == h[this.sortBy]
        props == ArrayProps(ObjectEntries(h[this.filter]))
    IN  [h      |-> IF Len(rules) > 0
                    THEN Append(h, [i \in 1..Len(rules) |->
                                       rules[i][1] \o <<":">> \o rules[i][2]])
                    ELSE h,
         this   |-> this,
         arrays |-> (IF Len(rules) > 0
                     THEN <<[key |-> KeySortBy, ref |-> Len(h) + 1]>> ELSE <<>>)
                    \o (IF Len(h[this.searchBy]) > 0
                        THEN <<[key |-> KeySearchBy, ref |-> this.searchBy]>> ELSE <<>>)
                    \o [i \in 1..Len(props) |->
                           [key |-> FilterPrefix \o props[i].key,
                            ref |-> props[i].val.ref]]]

\* An input object with one array-valued field.
OnlyField(field, column, arr) ==
    <<[page |-> <<>>, limit |-> <<>>, sortBy |-> <<>>, search |-> <<>>,
       searchBy |-> IF field = "searchBy" THEN <<arr>> ELSE <<>>,
       select |-> IF field = "select" THEN <<arr>> ELSE <<>>,
       cursor |-> <<>>, withDeleted |-> <<>>,
       filter |-> IF field = "filter"
                  THEN << <<[key |-> column, val |-> PArr(arr)]>> >> ELSE <<>>]>>

\* The call that takes the caller's array arr; the array is the cell at
\* Len(h) + 1, or, for createPaginateParams, the first cell after the four
\* of the new builder.
Pass(h, this, op, column, arr) ==
    CASE op = "searchBy" -> searchBy(Append(h, arr), this, Len(h) + 1)
      [] op = "select"   -> select(Append(h, arr), this, Len(h) + 1)
      [] op = "filter"   -> filter(Append(h, arr), this, column, RefVal(Len(h) + 1))
      [] op = "createSearchBy" -> createPaginateParams(h, OnlyField("searchBy", column, arr))
      [] op = "createSelect"   -> createPaginateParams(h, OnlyField("select", column, arr))
      [] op = "createFilter"   -> createPaginateParams(h, OnlyField("filter", column, arr))

PassedRef(h, op) ==
    IF op \in {"searchBy", "select", "filter"} THEN Len(h) + 1
    ELSE Len(NewBuilder(h).h) + 1

Snapshot(kind, st, arrays) ==
    <<[kind |-> kind, params |-> toParams(st.h, st.this), arrays |-> arrays]>>

Phase == IF output = <<>> THEN "passed" ELSE output[1].kind

AliasFrame == UNCHANGED <<c, sortLog, filterLog, flagLog, filterOrder, codecVars, serial>>

\* sortBy(column, direction) or filter(column, token): no array is passed.
PlainCall ==
    /\ Phase = "passed" /\ calls["b"] < MaxPasses
    /\ \E op \in {"sortBy", "filter"}, column \in Columns :
          LET st == Mutate(heap, b, op, column, <<>>, TRUE)
          IN  /\ heap' = st.h /\ b' = st.this
              /\ output' = Snapshot("passed", st, <<>>)
    /\ calls' = [calls EXCEPT !["b"] = @ + 1]
    /\ UNCHANGED input
    /\ AliasFrame

PassArray ==
    /\ Phase = "passed" /\ calls["b"] < MaxPasses
    /\ \E op \in {"searchBy", "select", "filter", "createSearchBy", "createSelect",
                  "createFilter"},
          column \in Columns, arr \in TokenLists :
          /\ op \notin {"filter", "createFilter"} => column = ColName
          /\ LET st == Pass(heap, b, op, column, arr)
             IN  /\ heap' = st.h /\ b' = st.this
                 /\ output' = Snapshot("passed", st, <<>>)
          /\ input' = <<[op |-> op, ref |-> PassedRef(heap, op)]>>
    /\ calls' = [calls EXCEPT !["b"] = @ + 1]
    /\ AliasFrame

\* arr.push(...) on the array passed in by the latest call.
MutateCallerArray ==
    /\ Phase = "passed" /\ input # <<>>
    /\ heap' = [heap EXCEPT ![input[1].ref] = Append(@, Pushed)]
    /\ output' = <<[output[1] EXCEPT !.kind = "callerMutated"]>>
    /\ UNCHANGED <<b, calls, input>>
    /\ AliasFrame

\* params = b.toParams()
TakeParams ==
    /\ Phase = "passed" /\ output # <<>>
    /\ LET st == Builder_toParamsArrays(heap, b)
       IN  /\ heap' = st.h
           /\ output' = Snapshot("returned", st, st.arrays)
    /\ UNCHANGED <<b, calls, input>>
    /\ AliasFrame

\* params[key].push(...) on an array of the returned object.
MutateReturned ==
    /\ Phase = "returned"
    /\ \E i \in 1..Len(output[1].arrays) :
          /\ heap' = [heap EXCEPT ![output[1].arrays[i].ref] = Append(@, Pushed)]
          /\ output' = <<[output[1] EXCEPT !.kind = "returnedMutated",
                                           !.arrays = <<@[i]>>]>>
    /\ UNCHANGED <<b, calls, input>>
    /\ AliasFrame

NextAlias == PlainCall \/ PassArray \/ MutateCallerArray \/ TakeParams \/ MutateReturned

SpecAlias == Init /\ [][NextAlias]_vars

(***************************************************************************)
(* A builder and the builder parsed from its query string, under the same  *)
(* further mutator calls.  b is the builder made from the input; output    *)
(* is <<>> or the parsed builder [threw, h, this], in a heap of its own.   *)
(***************************************************************************)
\* b = createPaginateParams(input), which calls the setters.
Build ==
    /\ input = <<>>
    /\ \E x \in CreateInputs :
          /\ Commit("b", createPaginateParams(<<>>, x))
          /\ input' = <<x>>
    /\ UNCHANGED <<calls, sortLog, filterLog, flagLog, filterOrder, codecVars,
                   output, serial>>

\* p = fromQueryString(b.toQueryString())
Reparse ==
    /\ input # <<>> /\ output = <<>>
    /\ output' = <<Reparsed([h |-> heap, this |-> b]).parsed>>
    /\ UNCHANGED <<builderVars, codecVars, input, serial>>

\* The same mutator call on b and on p.
ContinueBoth ==
    /\ output # <<>>
    /\ ~output[1].threw
    /\ calls["b"] < MaxFurther
    /\ \E op \in Mutators, column \in Columns,
          tokens \in {<<>>, <<TokenA, TokenB>>}, value \in BOOLEAN :
          /\ Used(op, column, tokens, value)
          /\ Commit("b", Mutate(heap, b, op, column, tokens, value))
          /\ output' = <<[threw |-> FALSE,
                          h     |-> Mutate(output[1].h, output[1].this, op, column,
                                           tokens, value).h,
                          this  |-> Mutate(output[1].h, output[1].this, op, column,
                                           tokens, value).this]>>
    /\ calls' = [calls EXCEPT !["b"] = @ + 1]
    /\ UNCHANGED <<sortLog, filterLog, flagLog, filterOrder, codecVars, input, serial>>

NextReparse == Build \/ Reparse \/ ContinueBoth

SpecReparse == Init /\ [][NextReparse]_vars

\* Entity shapes: two record types of up to two fields each, every field a
\* primitive, a record, an array, or something else.
TypeNames  == {"A", "B"}
FieldNames == {<<"f">>, <<"g">>}
FieldTypes == {Absent, TPrimitive, TOther, TArrayOfPrim}
              \cup {TRecord(n) : n \in TypeNames} \cup {TArray(n) : n \in TypeNames}

Shapes == [TypeNames -> [FieldNames -> FieldTypes]]

InitColumn ==
    /\ InitBuilder /\ InitCodec
    /\ input \in {<<[shape |-> sh, root |-> n]>> : sh \in Shapes, n \in TypeNames}
    /\ output = <<>>
    /\ serial = <<>>

ResolveColumnPath ==
    /\ output = <<>>
    /\ output' = <<ColumnPath(input[1].shape, TRecord(input[1].root))>>
    /\ UNCHANGED <<builderVars, codecVars, input, serial>>

NextColumn == ResolveColumnPath

SpecColumn == InitColumn /\ [][NextColumn]_vars

(***************************************************************************)
(* Claims about the builder, checked under Spec.                           *)
(***************************************************************************)

\* C1: round trip.  For every builder state reached through the public
\* mutators, parsing the builder's query string gives a builder whose
\* toParams() equals the original's.
C1_RoundTrip ==
    LET p == fromQueryString(toQueryString(toParams(heap, b)))
    IN  ~p.threw /\ toParams(p.h, p.this) = toParams(heap, b)

\* C2: filter accumulates.  For every builder and column, the filter entry
\* holds exactly the tokens passed for that column, in call order: absent
\* when filter was never called for it, the token itself when exactly one
\* token was passed, and the list of all of them otherwise.
C2_FilterAccumulates ==
    \A t \in Targets, column \in Columns :
        LET entry == GetProp(heap[Get(t).filter], column)
            log   == filterLog[t][column]
        IN  IF ~log.called THEN entry = <<>>
            ELSE /\ entry # <<>>
                 /\ IF Len(log.tokens) = 1
                    THEN ~entry[1].isArray /\ entry[1].str = log.tokens[1]
                    ELSE entry[1].isArray /\ heap[entry[1].ref] = log.tokens

\* C3: clone() is an independent deep copy.  Once c = b.clone() exists, a
\* call on c leaves b.toParams() as it was and a call on b leaves
\* c.toParams() as it was.
C3_CloneIndependent ==
    [][(c # <<>> /\ c' # <<>>) =>
          /\ (calls'["c"] > calls["c"] => toParams(heap', b') = toParams(heap, b))
          /\ (calls'["b"] > calls["b"] =>
                 toParams(heap', c'[1]) = toParams(heap, c[1]))]_vars

\* C3 witness: b, holding a sort rule, was cloned, and the clone has since
\* been given a further sort rule that b does not have.
C3_Witness ==
    /\ c # <<>>
    /\ calls["c"] >= 1
    /\ Len(heap[b.sortBy]) > 0
    /\ Len(heap[c[1].sortBy]) > Len(heap[b.sortBy])
    /\ toParams(heap, b) # toParams(heap, c[1])

C10_SortByAccumulates ==
    \A t \in Targets :
        LET entry == GetProp(toParams(heap, Get(t)), KeySortBy)
        IN  IF sortLog[t] = <<>> THEN entry = <<>>
            ELSE /\ entry # <<>>
                 /\ entry[1] = PArr([i \in 1..Len(sortLog[t]) |->
                                        sortLog[t][i][1] \o <<":">> \o sortLog[t][i][2]])

\* C10 witness: three sortBy calls on b, the first two with the same rule.
C10_Witness ==
    /\ Len(sortLog["b"]) = 3
    /\ sortLog["b"][1] = sortLog["b"][2]
    /\ sortLog["b"][3] # sortLog["b"][1]
    /\ Len(heap[b.sortBy]) = 3

(***************************************************************************)
(* Claims about the filter-token codec, checked under SpecCodec.           *)
(***************************************************************************)
EndsWith(s, p) == Len(s) >= Len(p) /\ SubSeq(s, Len(s) - Len(p) + 1, Len(s)) = p

\* C5: buildFilterToken with an operator other than $null and no value
\* fails (throws) and returns no token.
C5_MissingValueThrows ==
    (/\ tcall.fn = "buildFilterToken"
     /\ tcall.options.operator # OpNULL
     /\ tcall.options.value.kind = "undefined") => tres.threw

\* C6: buildFilterToken with operator $null emits no value segment,
\* whatever value is supplied: the token is made of the comparator and
\* suffix prefixes only and ends in '$null', and is exactly '$null' when
\* neither prefix is given.
C6_NullHasNoValue ==
    (tcall.fn = "buildFilterToken" /\ tcall.options.operator = OpNULL) =>
        /\ ~tres.threw
        /\ EndsWith(tres.str, <<"$", "n", "u", "l", "l">>)
        /\ LET segs == Split(tres.str, ":")
           IN  /\ segs[Len(segs)] = OpNULL
               /\ \A i \in 1..(Len(segs) - 1) :
                      segs[i] \in FilterComparator \cup FilterSuffix
        /\ (tcall.options.comparator = <<>> /\ tcall.options.suffix = <<>>) =>
               tres.str = <<"$", "n", "u", "l", "l">>

\* C6 witness: $null was given a value and a suffix.
C6_Witness ==
    /\ tcall.fn = "buildFilterToken"
    /\ tcall.options.operator = OpNULL
    /\ tcall.options.value = Str(Foo)
    /\ tcall.options.suffix = <<SuffixNOT>>
    /\ tres.str = <<"$", "n", "o", "t", ":", "$", "n", "u", "l", "l">>

\* C7: a comparator prefix is emitted only for $or.  With comparator $and
\* the token is the one built with the comparator omitted and does not
\* start with '$and:'; with $or it is that token prefixed with '$or:'.
C7_AndNeverEmitted ==
    tcall.fn = "buildFilterToken" =>
        LET bare == buildFilterToken([tcall.options EXCEPT !.comparator = <<>>])
        IN  /\ tcall.options.comparator = <<ComparatorAND>> =>
                   /\ tres.str = bare
                   /\ ~StartsWith(tres.str, <<"$", "a", "n", "d", ":">>)
            /\ tcall.options.comparator = <<ComparatorOR>> =>
                   tres.str = <<"$", "o", "r", ":">> \o bare
            /\ tcall.options.comparator = <<>> =>
                   /\ ~StartsWith(tres.str, <<"$", "a", "n", "d", ":">>)
                   /\ ~StartsWith(tres.str, <<"$", "o", "r", ":">>)

\* C7 witness: buildFilterToken was called with comparator $and, operator
\* $eq and value 'foo', and returned '$eq:foo'.
C7_Witness ==
    /\ tcall.fn = "buildFilterToken"
    /\ tcall.options = Options(<<ComparatorAND>>, <<>>, OpEQ, Str(Foo))
    /\ tres.str = <<"$", "e", "q", ":", "f", "o", "o">>

C9_ContainsVariadic ==
    (/\ tcall.fn = "contains"
     /\ Len(tcall.args) >= 1
     /\ \A i \in 1..Len(tcall.args) : tcall.args[i].kind \in {"string", "number"}) =>
        /\ ~tres.threw
        /\ tres.str = OpCONTAINS \o <<":">> \o Join(MapString(tcall.args), <<",">>)

(***************************************************************************)
(* Claims about toQueryString(params), checked under SpecParams.           *)
(***************************************************************************)
\* The values of a property for which a pair is due: the non-empty string,
\* the non-empty elements of a list, none for undefined or null.
DueValues(val) ==
    IF val.nullish THEN <<>>
    ELSE IF val.isArray THEN SelectSeq(val.arr, LAMBDA v : v # <<>>)
    ELSE IF val.str # <<>> THEN <<val.str>>
    ELSE <<>>

RECURSIVE DueCount(_)
\* The number of values of a params object for which a pair is due.
DueCount(params) ==
    IF params = <<>> THEN 0
    ELSE Len(DueValues(Head(params).val)) + DueCount(Tail(params))

\* The key=value pairs of a query string, decoded, in order.
DecodedPairs(qs) ==
    LET body == IF StartsWith(qs, <<"?">>) THEN Tail(qs) ELSE qs
        segs == IF body = <<>> THEN <<>> ELSE Split(body, "&")
    IN  [i \in 1..Len(segs) |->
            <<decodeURIComponent(SubSeq(segs[i], 1, IndexOf(segs[i], "=") - 1)).str,
              decodeURIComponent(SubSeq(segs[i], IndexOf(segs[i], "=") + 1,
                                        Len(segs[i]))).str>>]

\* C11: toQueryString returns the empty string exactly when no key=value
\* pair is due (as for the params of a fresh builder); otherwise the result
\* is '?' followed by the pairs joined by '&': as many '&'-separated
\* segments as pairs are due, none of them empty (no leading, trailing or
\* doubled '&'), each a key of the params, '=', and a value.
C11_EmptyOrPrefixed ==
    output # <<>> =>
        LET params == input[1]
            out    == output[1]
            segs   == Split(Tail(out), "&")
        IN  /\ (out = <<>>) <=> (DueCount(params) = 0)
            /\ DueCount(params) > 0 =>
                   /\ Head(out) = "?"
                   /\ Len(segs) = DueCount(params)
                   /\ \A k \in 1..Len(segs) :
                          /\ segs[k] # <<>>
                          /\ Len(Split(segs[k], "=")) = 2
                          /\ Split(segs[k], "=")[2] # <<>>
                          /\ \E i \in 1..Len(params) :
                                 encodeURIComponent(params[i].key) = Split(segs[k], "=")[1]

\* C11 witness: params with an empty string among values that give three
\* pairs, serialised to '?', three segments and two '&'.
C11_Witness ==
    /\ output # <<>>
    /\ \E i \in 1..Len(input[1]) : input[1][i].val = PStr(<<>>)
    /\ DueCount(input[1]) = 3
    /\ Head(output[1]) = "?"
    /\ Len(Split(Tail(output[1]), "&")) = 3

RECURSIVE ExpectedPairs(_)
\* <<key, value>> for every due value, in the order of the entries and
\* within an entry in list order.
ExpectedPairs(entries) ==
    IF entries = <<>> THEN <<>>
    ELSE [j \in 1..Len(DueValues(Head(entries).val)) |->
             <<Head(entries).key, DueValues(Head(entries).val)[j]>>]
         \o ExpectedPairs(Tail(entries))

\* C20: toQueryString(params) emits exactly one key=value pair per
\* non-empty value, in key order (that of Object.entries) and within a key
\* in list order: a list with k non-empty values gives k pairs with that
\* key, and undefined, null and '' give none.
C20_OnePairPerValue ==
    output # <<>> =>
        /\ DecodedPairs(output[1]) = ExpectedPairs(ObjectEntries(input[1]))
        /\ \A i \in 1..Len(input[1]) :
               Len(SelectSeq(DecodedPairs(output[1]),
                             LAMBDA pr : pr[1] = input[1][i].key))
                   = Len(DueValues(input[1][i].val))

\* C20 witness: { search: null, sortBy: ['x', '', 'y,z'] } is serialised to
\* two sortBy pairs.
C20_Witness ==
    /\ input = << << [key |-> KeySearch, val |-> PNull],
                     [key |-> KeySortBy,
                      val |-> PArr(<< <<"x">>, <<>>, <<"y", ",", "z">> >>)] >> >>
    /\ output # <<>>
    /\ DecodedPairs(output[1]) = << <<KeySortBy, <<"x">> >>,
                                    <<KeySortBy, <<"y", ",", "z">> >> >>

(***************************************************************************)
(* Further claims about the builder, checked under Spec.                   *)
(***************************************************************************)

\* C12: toURLSearchParams() expresses the same pairs as toQueryString().
\* For every builder state the ordered list of (key, value) entries of
\* toURLSearchParams() equals the ordered list of decoded key=value pairs
\* of toQueryString(), a repeated key once per value.
C12_SamePairs ==
    \A t \in Targets :
        toURLSearchParams(heap, Get(t))
            = DecodedPairs(toQueryString(toParams(heap, Get(t))))

\* The keys that are not filters, in the order in which toParams is said to
\* insert them.
FixedKeyOrder ==
    <<KeyPage, KeyLimit, KeySortBy, KeySearch, KeySearchBy, KeySelect, KeyCursor,
      KeyWithDeleted>>

\* C19: toParams() inserts its keys in the fixed order page, limit, sortBy,
\* search, searchBy, select, cursor, withDeleted, followed by one
\* 'filter.<column>' key per filtered column in the order in which each
\* column was first passed to filter(), whatever the order of the setter
\* calls and of later appends.
C19_KeyOrder ==
    \A t \in Targets :
        LET params  == toParams(heap, Get(t))
            keys    == [i \in 1..Len(params) |-> params[i].key]
            plain   == SelectSeq(keys, LAMBDA k : ~StartsWith(k, FilterPrefix))
            filters == SelectSeq(keys, LAMBDA k : StartsWith(k, FilterPrefix))
        IN  /\ keys = plain \o filters
            /\ plain = SelectSeq(FixedKeyOrder,
                                 LAMBDA k : \E i \in 1..Len(plain) : plain[i] = k)
            /\ filters = [i \in 1..Len(filterOrder[t]) |->
                             FilterPrefix \o filterOrder[t][i]]

(***************************************************************************)
(* Claims about fromQueryString, checked under SpecParse.                  *)
(***************************************************************************)
KnownKeys == {KeyPage, KeyLimit, KeySortBy, KeySearch, KeySearchBy, KeySelect,
              KeyCursor, KeyWithDeleted}

\* A fragment the parser is said to skip: empty, without '=', with an
\* undecodable key or value, with an unknown key, page or limit without an
\* integer to parse, sortBy without ':'.
Uninterpretable(f) ==
    \/ f = <<>>
    \/ IndexOf(f, "=") = 0
    \/ LET key == decodeURIComponent(SubSeq(f, 1, IndexOf(f, "=") - 1))
           val == decodeURIComponent(SubSeq(f, IndexOf(f, "=") + 1, Len(f)))
       IN  \/ ~key.ok
           \/ ~val.ok
           \/ key.str \notin KnownKeys /\ ~StartsWith(key.str, FilterPrefix)
           \/ key.str \in {KeyPage, KeyLimit} /\ parseInt(val.str) = <<>>
           \/ key.str = KeySortBy /\ IndexOf(val.str, ":") = 0

\* C13: fromQueryString is tolerant.  For every input string it returns a
\* builder and raises no error, and the builder is the one obtained from
\* the string without the fragments it cannot interpret; a filter.<column>
\* fragment is interpreted for every column name.
C13_Tolerant ==
    output # <<>> =>
        LET kept == SelectSeq(input[1].fragments, LAMBDA f : ~Uninterpretable(f))
            ref  == fromQueryString(Join(kept, <<"&">>))
        IN  /\ ~output[1].threw
            /\ ~ref.threw
            /\ toParams(output[1].h, output[1].this) = toParams(ref.h, ref.this)

\* An optional sign followed by digits only.
IsDecimalInteger(v) ==
    LET body == IF v # <<>> /\ Head(v) \in {"-", "+"} THEN Tail(v) ELSE v
    IN  body # <<>> /\ \A i \in 1..Len(body) : IsDigit(body[i])

IntegerValue(v) ==
    IF Head(v) = "-" THEN 0 - DigitsValue(Tail(v), 0)
    ELSE IF Head(v) = "+" THEN DigitsValue(Tail(v), 0)
    ELSE DigitsValue(v, 0)

\* A decimal numeral: an integer, or an integer, '.', and digits.
IsNumeric(v) ==
    \/ IsDecimalInteger(v)
    \/ /\ IndexOf(v, ".") > 1
       /\ IsDecimalInteger(SubSeq(v, 1, IndexOf(v, ".") - 1))
       /\ IsDecimalInteger(<<"+">> \o SubSeq(v, IndexOf(v, ".") + 1, Len(v)))

\* The decoded values of the fragments with the given key, in order.
ValuesOfKey(fragments, key) ==
    LET with == SelectSeq(fragments, LAMBDA f :
                    IndexOf(f, "=") > 0 /\
                    decodeURIComponent(SubSeq(f, 1, IndexOf(f, "=") - 1)).str = key)
    IN  [i \in 1..Len(with) |->
            decodeURIComponent(SubSeq(with[i], IndexOf(with[i], "=") + 1,
                                      Len(with[i]))).str]

\* C14: fromQueryString parses page and limit as integers.  Where every
\* value given for the key is a decimal integer or is not numeric, the
\* params hold String(n) for the last value that is a decimal integer n,
\* and do not hold the key when no value is one; no error is raised for a
\* value that is not numeric.
C14_PageLimitIntegers ==
    (output # <<>> /\ ~output[1].threw) =>
        \A key \in {KeyPage, KeyLimit} :
            LET vals == ValuesOfKey(input[1].fragments, key)
                ints == SelectSeq(vals, IsDecimalInteger)
                got  == GetProp(toParams(output[1].h, output[1].this), key)
            IN  (\A i \in 1..Len(vals) : IsDecimalInteger(vals[i]) \/ ~IsNumeric(vals[i]))
                => IF ints = <<>> THEN got = <<>>
                   ELSE got = <<PStr(NumberToString(IntegerValue(ints[Len(ints)])))>>

(***************************************************************************)
(* Claim about createPaginateParams(input), checked under SpecCreate.      *)
(***************************************************************************)

\* C15: createPaginateParams(input) is equivalent to a fresh builder on
\* which the setter of each field present in the input was called (one
\* sortBy call per tuple, in list order, whether one tuple or a list was
\* given; one filter call per filter entry): the two builders have equal
\* toParams(), and still have after the same further mutator calls on both.
C15_CreateEquivalent ==
    input # <<>> => toParams(heap, b) = toParams(heap, c[1])

\* C15 witness: the input had a list of two sort tuples and filters on two
\* columns, and a further sortBy call was then made on both builders.
C15_Witness ==
    /\ input # <<>>
    /\ input[1] # <<>>
    /\ Len(SortTuples(input[1][1])) = 2
    /\ input[1][1].filter # <<>>
    /\ Len(input[1][1].filter[1]) = 2
    /\ calls["b"] = 1
    /\ Len(heap[b.sortBy]) = 3
    /\ Len(heap[c[1].sortBy]) = 3
    /\ Len(ParamsFilters(heap, b)) = 2

(***************************************************************************)
(* Claim about the serialising calls, checked under SpecSerial.            *)
(***************************************************************************)

\* C16: serialisation is idempotent and read-only.  A call of toParams()
\* or toQueryString() leaves the heap and both builders as they were, and
\* it returns what the previous call of the same method on the same builder
\* returned when no mutator was called in between; toQueryString() after
\* toParams() returns the query string of those params.
C16_SerializationReadOnly ==
    [][serial' # <<>> =>
          /\ heap' = heap /\ b' = b /\ c' = c
          /\ (serial # <<>> /\ serial[1].t = serial'[1].t) =>
                 /\ serial[1].fn = serial'[1].fn => serial'[1].ret = serial[1].ret
                 /\ (serial[1].fn = "toParams" /\ serial'[1].fn = "toQueryString") =>
                        serial'[1].ret = toQueryString(serial[1].ret)]_vars

\* C16 witness: after two mutator calls on the only builder, one of them a
\* sortBy, a second serialising call in a row has returned a query string.
C16_Witness ==
    /\ serial # <<>>
    /\ serial[1].n = 2
    /\ serial[1].fn = "toQueryString"
    /\ serial[1].ret # <<>>
    /\ c = <<>>
    /\ calls["b"] = 2
    /\ Len(heap[b.sortBy]) = 1

(***************************************************************************)
(* Claim about the column paths, checked under SpecColumn.                 *)
(***************************************************************************)
RECURSIVE IsWalk(_, _, _)
\* w is a non-empty list of field names that can be followed from the
\* record type n: each field exists, and each one before the last is a
\* nested object or an array of objects.
IsWalk(shape, n, w) ==
    /\ w # <<>>
    /\ shape[n][Head(w)] # Absent
    /\ \/ Len(w) = 1
       \/ /\ shape[n][Head(w)].kind \in {"record", "array"}
          /\ shape[n][Head(w)].name # ""
          /\ IsWalk(shape, shape[n][Head(w)].name, Tail(w))

\* The paths of at most DefaultDepth hops from the root type.
ValidPaths(shape, root) ==
    {Join(w, <<".">>) :
        w \in {v \in UNION {[1..k -> FieldNames] : k \in 1..(DefaultDepth + 1)} :
                  IsWalk(shape, root, v)}}

Dots(path) == Len(SelectSeq(path, LAMBDA ch : ch = "."))

\* C17: the column paths of an entity shape are every field's own key and,
\* for each nested-object or array-of-object field, key '.' p for every
\* valid path p of the nested shape, recursively, cut off after two hops:
\* no path has more than two dots, and the set is finite for
\* self-referential and mutually recursive shapes too.
C17_ColumnPaths ==
    output # <<>> =>
        /\ output[1] = ValidPaths(input[1].shape, input[1].root)
        /\ \A path \in output[1] : Dots(path) <= DefaultDepth
        /\ IsFiniteSet(output[1])

\* C17 witness: type A has a field f that is an array of A and a primitive
\* field g; its paths go down to 'f.f.f' and 'f.f.g' and no further.
C17_Witness ==
    /\ output # <<>>
    /\ input[1].root = "A"
    /\ input[1].shape["A"][<<"f">>] = TArray("A")
    /\ input[1].shape["A"][<<"g">>] = TPrimitive
    /\ output[1] = {<<"f">>, <<"g">>, <<"f", ".", "f">>, <<"f", ".", "g">>,
                    <<"f", ".", "f", ".", "f">>, <<"f", ".", "f", ".", "g">>}

(***************************************************************************)
(* Further claim about the filter-token codec, checked under SpecCodec.    *)
(***************************************************************************)
\* [comparator:][suffix:]operator[:value]: the ':'-separated segments are
\* at most one comparator, then at most one $not, then one operator; what
\* follows is the value.
HasTokenShape(token) ==
    LET segs == Split(token, ":")
        i1   == IF segs[1] \in FilterComparator THEN 2 ELSE 1
        i2   == IF i1 <= Len(segs) /\ segs[i1] \in FilterSuffix THEN i1 + 1 ELSE i1
    IN  i2 <= Len(segs) /\ segs[i2] \in FilterOperator

\* C18: every token the codec produces, by buildFilterToken, by a helper,
\* or by not / or / and applied in any order and number to such a token,
\* has the shape [comparator:][suffix:]operator[:value].
C18_TokenShape ==
    (tcall.fn # "none" /\ ~tres.threw) => HasTokenShape(tres.str)

(***************************************************************************)
(* Claims about fromQueryString on repeated keys, checked under SpecPairs. *)
(***************************************************************************)
\* The values of the pairs with the given key, in input order.
PairValues(pairs, key) ==
    LET sel == SelectSeq(pairs, LAMBDA e : e.key = key)
    IN  [i \in 1..Len(sel) |-> sel[i].val]

RECURSIVE FirstSeen(_, _)
\* The filter columns of the pairs, each once, in order of first occurrence.
FirstSeen(order, pairs) ==
    IF pairs = <<>> THEN order
    ELSE IF StartsWith(Head(pairs).key, FilterPrefix)
    THEN FirstSeen(FirstPassed(order, SubSeq(Head(pairs).key, Len(FilterPrefix) + 1,
                                             Len(Head(pairs).key))),
                   Tail(pairs))
    ELSE FirstSeen(order, Tail(pairs))

\* The filter.<column> properties of a params object, in property order.
FilterProps(params) == SelectSeq(params, LAMBDA e : StartsWith(e.key, FilterPrefix))

\* C21: fromQueryString accumulates the values of repeated filter.<column>
\* keys per column in order of occurrence; the filter entry is the single
\* value when the column occurs once and the ordered list otherwise, and
\* the columns appear in toParams() in first-seen order, however the pairs
\* of different columns are interleaved.
C21_FilterAccumulates ==
    output # <<>> =>
        LET cols == FirstSeen(<<>>, input[1].pairs)
            vals(col) == PairValues(input[1].pairs, FilterPrefix \o col)
        IN  FilterProps(toParams(output[1].h, output[1].this)) =
                [i \in 1..Len(cols) |->
                    [key |-> FilterPrefix \o cols[i],
                     val |-> IF Len(vals(cols[i])) = 1 THEN PStr(vals(cols[i])[1])
                             ELSE PArr(vals(cols[i]))]]

\* The sort rule a sortBy value stands for: the direction is what follows
\* the ':' after which there is no further ':', the column what precedes it.
RuleOf(val) ==
    LET i == CHOOSE k \in 1..Len(val) :
                 val[k] = ":" /\ \A j \in (k + 1)..Len(val) : val[j] # ":"
    IN  <<SubSeq(val, 1, i - 1), SubSeq(val, i + 1, Len(val))>>

HasColon(val) == \E k \in 1..Len(val) : val[k] = ":"

\* The property of a params object, <<>> when it has none of that key.
ParamOf(params, key) ==
    LET sel == SelectSeq(params, LAMBDA e : e.key = key)
    IN  IF sel = <<>> THEN <<>> ELSE <<sel[1].val>>

\* C22: fromQueryString splits each sortBy value at its last ':' into
\* column and direction and appends one rule per occurrence, in input
\* order; a value without ':' adds no rule.  The pair 'sortBy=' +
\* encode(c + ':' + d) parses back to the toParams().sortBy entry c:d.
C22_SortBySplit ==
    output # <<>> =>
        LET vals == SelectSeq(PairValues(input[1].pairs, KeySortBy), HasColon)
        IN  /\ output[1].h[output[1].this.sortBy] = [i \in 1..Len(vals) |-> RuleOf(vals[i])]
            /\ ParamOf(toParams(output[1].h, output[1].this), KeySortBy) =
                   IF vals = <<>> THEN <<>> ELSE <<PArr(vals)>>

\* C22 witness: a column that holds a ':' itself, a value without ':' and a
\* second rule.
C22_Witness ==
    /\ output # <<>>
    /\ PairValues(input[1].pairs, KeySortBy) =
           <<ColColon \o <<":">> \o DESC, ColName, ColName \o <<":">> \o ASC>>
    /\ output[1].h[output[1].this.sortBy] = << <<ColColon, DESC>>, <<ColName, ASC>> >>

\* C23: in every builder state, made by fromQueryString on any query string
\* too, the direction of each sort rule is ASC or DESC.
C23_DirectionAscDesc ==
    output # <<>> =>
        \A i \in 1..Len(output[1].h[output[1].this.sortBy]) :
            output[1].h[output[1].this.sortBy][i][2] \in SortDirection

\* The value of the last pair with the given key, <<>> when there is none.
LastValue(pairs, key) ==
    LET vals == PairValues(pairs, key)
    IN  IF vals = <<>> THEN <<>> ELSE <<vals[Len(vals)]>>

C25_SearchByAccumulates ==
    output # <<>> =>
        ParamOf(toParams(output[1].h, output[1].this), KeySearchBy) =
            IF PairValues(input[1].pairs, KeySearchBy) = <<>> THEN <<>>
            ELSE <<PArr(PairValues(input[1].pairs, KeySearchBy))>>

\* C25 witness: two searchBy pairs with a pair of another key between them.
C25_Witness ==
    /\ output # <<>>
    /\ Len(input[1].pairs) = 3
    /\ input[1].pairs[1] = KV(KeySearchBy, ColIndex)
    /\ input[1].pairs[2].key = KeySearch
    /\ input[1].pairs[3] = KV(KeySearchBy, ColName)
    /\ ParamOf(toParams(output[1].h, output[1].this), KeySearchBy) =
           <<PArr(<<ColIndex, ColName>>)>>

(***************************************************************************)
(* Claim about percent-encoding, checked under SpecEncode.                 *)
(***************************************************************************)
Count(s, ch) == Len(SelectSeq(s, LAMBDA x : x = ch))

\* The number of pairs due for an argument: one for the search term, one
\* for the cursor, one per token.
PairsDue(x) == Len(x.search) + Len(x.cursor) + Len(x.tokens)

\* The tokens of a filter entry, <<>> when the column has none.
EntryTokens(h, this, column) ==
    LET e == GetProp(h[this.filter], column)
    IN  IF e = <<>> THEN <<>>
        ELSE IF e[1].isArray THEN h[e[1].ref] ELSE <<e[1].str>>

\* C26: percent-encoding keeps the pair structure unambiguous.  For values
\* (search term, cursor, filter token, column path) holding '&', '=', '?',
\* ':' or ',', the query string has no '&', '=' or '?' inside a key or a
\* value: its only '?' is the leading one, its '&' separate the pairs and
\* its '=' are one per pair; and fromQueryString(toQueryString(...))
\* recovers the search term, the cursor and each filter token of the column
\* character for character.
C26_EncodingUnambiguous ==
    output # <<>> =>
        LET x  == input[1]
            qs == output[1].qs
            p  == output[1].parsed
        IN  /\ Count(qs, "?") = (IF PairsDue(x) > 0 THEN 1 ELSE 0)
            /\ PairsDue(x) > 0 => Head(qs) = "?" /\ Count(qs, "&") = PairsDue(x) - 1
            /\ Count(qs, "=") = PairsDue(x)
            /\ ~p.threw
            /\ p.this.search = x.search
            /\ p.this.cursor = x.cursor
            /\ EntryTokens(p.h, p.this, x.column) = x.tokens
            /\ Len(p.h[p.this.filter]) = (IF x.tokens = <<>> THEN 0 ELSE 1)

\* C26 witness: a search term with '&', a cursor with '=', a column with
\* '&' and two tokens, one with ':' and ',' and one that reads like an
\* escape, all recovered.
C26_Witness ==
    /\ output # <<>>
    /\ input[1] = [search |-> << <<"a", "&", "b">> >>, cursor |-> << <<"c", "=", "1">> >>,
                   column |-> <<"a", "&", "b", ".", "c">>,
                   tokens |-> << <<"$", "e", "q", ":", "x", ",", "y">>, <<"%", "2", "6">> >>]
    /\ output[1].parsed.this.search = input[1].search
    /\ EntryTokens(output[1].parsed.h, output[1].parsed.this, input[1].column) =
           input[1].tokens

(***************************************************************************)
(* Claim about the filter object, checked under Spec.                      *)
(***************************************************************************)
\* A filter entry is a non-empty token string or a list of two tokens or
\* more.
WellFormedEntry(h, e) ==
    IF e.val.isArray THEN Len(h[e.val.ref]) >= 2 ELSE e.val.str # <<>>

\* C27: in every builder state reachable through the public mutators each
\* filter entry is a single non-empty token string or a list of at least
\* two tokens: never an empty list, a one-element list or an empty string.
C27_FilterRepresentation ==
    \A t \in Targets :
        \A i \in 1..Len(heap[Get(t).filter]) :
            WellFormedEntry(heap, heap[Get(t).filter][i])

(***************************************************************************)
(* Claims about shared arrays, checked under SpecAlias.                    *)
(***************************************************************************)
\* C28: the builder does not alias the caller's arrays.  After searchBy,
\* select, filter or createPaginateParams(input) has returned, changing the
\* array that was passed in does not change what toParams() returns.
C28_NoCallerAlias ==
    Phase = "callerMutated" => toParams(heap, b) = output[1].params

\* C29: the object returned by toParams() is not coupled to the builder.
\* After an array inside it (sortBy, searchBy, a filter entry of several
\* tokens) has been changed, toParams() and toQueryString() of the builder,
\* and of a clone of it, return what they returned before.
C29_NoReturnedAlias ==
    Phase = "returnedMutated" =>
        /\ toParams(heap, b) = output[1].params
        /\ Builder_toQueryString(heap, b).ret = toQueryString(output[1].params)
        /\ toParams(clone(heap, b).h, clone(heap, b).this) = output[1].params

(***************************************************************************)
(* Claim about continued use of a parsed builder, checked under            *)
(* SpecReparse.                                                            *)
(***************************************************************************)
\* C30: a parsed builder behaves like the builder that produced the string.
\* For p = fromQueryString(b.toQueryString()), b and p give equal
\* toParams() at once and after every further mutator call made on both.
C30_ParsedContinues ==
    output # <<>> =>
        /\ ~output[1].threw
        /\ toParams(output[1].h, output[1].this) = toParams(heap, b)

=============================================================================
